---- MODULE Spec2Model ----
(***************************************************************************)
(* Model of the Loxone Stream Deck plugin:                                 *)
(*   - the binary status-frame decoder of LoxoneClient                     *)
(*     (handleBinaryMessage / formatUuid),                                 *)
(*   - the realtime session of LoxoneClient (connect, handshake,           *)
(*     sendCommand, keep-alive, reconnect),                                *)
(*   - the per-button handlers of SwitchAction, DimmerAction and           *)
(*     BlindAction (appear, hide, poll, key press, dial rotation).         *)
(*   - the routing of inbound messages (handleMessage),                    *)
(*   - the configuration server's catalog cache and organizeControls,      *)
(*   - the connection manager's getClient.                                 *)
(* The parts live in one module, each with its own specification           *)
(* (SpecDecoder, SpecRoute, SpecSession, SpecButton, SpecServer,           *)
(* SpecOrganize, SpecManager) that leaves the variables of the other parts *)
(* unchanged.  SpecSwitch, SpecDimmer, SpecKey, SpecGuard and SpecPoll are *)
(* the button model for a choice of kinds, settings and events; SpecDial   *)
(* applies the dial computation to a range of levels, ticks and step       *)
(* sizes.                                                                  *)
(***************************************************************************)
EXTENDS Integers, Sequences, FiniteSets, TLC

VARIABLES
    \* ---- frame decoder ----
    data,        \* the inbound Buffer handed to handleBinaryMessage (sequence of bytes)
    decPc,       \* "recv": buffer received, not yet decoded; "done": decoded
    emitted,     \* the "valueChange" events emitted for the buffer, in emission order
    decErrors,   \* number of errors caught and logged by the decoder's try/catch
    frame,       \* how the peer sent the message: "text" or "binary"
    path,        \* the branch handleMessage took: "json", "binary", "none" (not called)
    raised       \* an exception left handleMessage

decVars == <<data, decPc, emitted, decErrors, frame, path, raised>>

VARIABLES
    \* ---- realtime session (LoxoneClient) ----
    ws,              \* this.ws: index of the current WebSocket in rs, 0 for null
    rs,              \* readyState of every WebSocket created so far, in creation order
    authenticated,   \* this.authenticated
    structureFile,   \* this.structureFile is non-null
    reconnectTimer,  \* this.reconnectTimer is non-null
    keepAliveTimer,  \* this.keepAliveTimer is non-null
    kaLeaked,        \* running keep-alive intervals whose handle is no longer stored
    timers,          \* the pending 5000 ms timeouts, oldest first: command timeouts
                     \* (with the state of their request) and the reconnect timeout
    hsLog,           \* per WebSocket: what its open handler has done so far
    lastSend,        \* the last string handed to ws.send
    lastRouted,      \* what handleMessage did with the last inbound message
    lastEmit,        \* the last notification emitted by the client
    stale,           \* message listeners of timed-out requests still registered
    lastSettle,      \* the requests settled by the last step, with their results
    uncaught         \* uncaught exceptions raised in the process so far

sesVars == <<ws, rs, authenticated, structureFile, reconnectTimer, keepAliveTimer,
             kaLeaked, timers, hsLog, lastSend, lastRouted, lastEmit, stale,
             lastSettle, uncaught>>

VARIABLES
    \* ---- buttons (SwitchAction, DimmerAction, BlindAction) ----
    actionKind,        \* the action class of each button
    shown,             \* host side: the button has appeared and not disappeared since
    settings,          \* host side: the settings sent in each event's payload
    susp,              \* onWillAppear calls suspended at their await, oldest first
    switchStates,      \* SwitchAction.switchStates (Map: action id -> boolean)
    currentValues,     \* DimmerAction / BlindAction.currentValues (Map: id -> number)
    dimmerStates,      \* DimmerAction.dimmerStates (Map: id -> boolean)
    pollingIntervals,  \* keys of the pollingIntervals Map (each value a running interval)
    leakedTimers,      \* buttons with a running poll interval whose handle was overwritten
    fetchInflight,     \* catalog fetches (curl) started and not yet called back
    fetchAge,          \* per button, for each fetch in flight (oldest first): the commands
                       \* in flight that were sent after it started, and whether such a
                       \* command has been answered with code 200 since
    ageKept,           \* whether fetchAge is kept in this behaviour (it is left empty
                       \* where no property reads it)
    cmdInflight,       \* command requests (curl) started and not yet called back
    title,             \* last setTitle of each button
    indicator,         \* last setState of each button
    feedback,          \* last setFeedback value of each button
    lastEv,            \* the input of the last step (fetch answer, command outcome, ticks)
    flash,             \* what the last step flashed on its key: "alert", "ok" or "none"
    keyLog             \* per button: the switch key presses so far, with their answers

btnVars == <<actionKind, shown, settings, susp, switchStates, currentValues, dimmerStates,
             pollingIntervals, leakedTimers, fetchInflight, fetchAge, ageKept, cmdInflight,
             title,
             indicator, feedback, lastEv, flash, keyLog>>

VARIABLES
    \* ---- companion server (config-server/server.js) ----
    clock,        \* Date.now(), in milliseconds since the server started
    connections,  \* the connections Map: key -> [structure, timestamp]
    catalog,      \* controller side: the version of the catalog it serves now
    srvFetches,   \* fetchLoxoneStructureHTTP calls of get-controls not yet settled
    srvReply,     \* the response sent by the last step (from "none" if none was sent)
    stored,       \* per (host, username): when a catalog fetched for it was last cached
    structureData,  \* the parsed catalog handed to organizeControls
    organized,      \* what organizeControls returned for it
    orgPc           \* "call": organizeControls not yet run on structureData; "done"

orgVars == <<structureData, organized, orgPc>>
srvVars == <<clock, connections, catalog, srvFetches, srvReply, stored, orgVars>>

VARIABLES
    \* ---- LoxoneConnectionManager ----
    clients,      \* the static clients Map: key -> index of the client in created
    connecting,   \* getClient calls suspended at await client.connect() (client indexes)
    created,      \* every LoxoneClient constructed so far: its host and username
    handed        \* the client the last step returned to a getClient caller (0: none)

mgrVars == <<clients, connecting, created, handed>>

vars == <<decVars, sesVars, btnVars, srvVars, mgrVars>>

-----------------------------------------------------------------------------
(***************************************************************************)
(* State after construction of each part                                   *)
(***************************************************************************)

\* new LoxoneClient(config): no socket, no timers, nothing sent.
SesIdle ==
    /\ ws = 0
    /\ rs = <<>>
    /\ authenticated = FALSE
    /\ structureFile = FALSE
    /\ reconnectTimer = FALSE
    /\ keepAliveTimer = FALSE
    /\ kaLeaked = 0
    /\ timers = <<>>
    /\ hsLog = <<>>
    /\ lastSend = "none"
    /\ lastRouted = "none"
    /\ lastEmit = "none"
    /\ stale = {}
    /\ lastSettle = <<>>
    /\ uncaught = 0

Buttons == {"b1"}

\* A Map with no entry.
EmptyMap == [b \in {} |-> FALSE]

\* A title is a name part and a state part: "ON"/"OFF", a percentage ("%" with
\* pct), "Configure" alone, or the name alone ("").
NoTitle == [name |-> "", text |-> "", pct |-> 0]

\* No button has appeared; the three action classes hold empty maps.
BtnIdle ==
    /\ actionKind = [b \in Buttons |-> "switch"]
    /\ shown = [b \in Buttons |-> FALSE]
    /\ settings = [b \in Buttons |-> [creds |-> FALSE, uuid |-> FALSE,
                                       named |-> FALSE, stepSize |-> 0]]
    /\ susp = <<>>
    /\ switchStates = EmptyMap
    /\ currentValues = EmptyMap
    /\ dimmerStates = EmptyMap
    /\ pollingIntervals = {}
    /\ leakedTimers = {}
    /\ fetchInflight = [b \in Buttons |-> 0]
    /\ fetchAge = [b \in Buttons |-> <<>>]
    /\ ageKept = FALSE
    /\ cmdInflight = {}
    /\ title = [b \in Buttons |-> NoTitle]
    /\ indicator = [b \in Buttons |-> 0]
    /\ feedback = [b \in Buttons |-> {}]
    /\ lastEv = [ev |-> "other"]
    /\ flash = "none"
    /\ keyLog = [b \in Buttons |-> <<>>]

\* No request has reached the companion server; its cache is empty.
NoReply == [from |-> "none", host |-> <<>>, user |-> <<>>, pw |-> <<>>, structure |-> 0]

\* What organizeControls returns when it finds no controls.
NoControls == [byRoom |-> EmptyMap, byCategory |-> EmptyMap, byType |-> EmptyMap,
               all |-> <<>>]

SrvIdle ==
    /\ structureData = [at |-> "none", controls |-> <<>>]
    /\ organized = NoControls
    /\ orgPc = "done"
    /\ clock = 0
    /\ connections = EmptyMap
    /\ catalog = 0
    /\ srvFetches = <<>>
    /\ srvReply = NoReply
    /\ stored = EmptyMap

\* LoxoneConnectionManager before any getClient call.
MgrIdle ==
    /\ clients = EmptyMap
    /\ connecting = {}
    /\ created = <<>>
    /\ handed = 0

\* No inbound buffer is being decoded.
DecIdle ==
    /\ data = <<>>
    /\ decPc = "done"
    /\ emitted = <<>>
    /\ decErrors = 0
    /\ frame = "binary"
    /\ path = "none"
    /\ raised = FALSE

-----------------------------------------------------------------------------
(***************************************************************************)
(* Frame decoder: src/unnamed/part_001, LoxoneClient.handleBinaryMessage   *)
(***************************************************************************)

\* Bounds of the decoder's inputs.
MaxRecords == 2

\* Layout constants of the binary status update.
HeaderLen == 8
UuidLen == 16
ValueLen == 8
RecordLen == 24
MinFrameLen == 24

MaxTrailing == RecordLen - 1
MaxBufLen == HeaderLen + MaxRecords * RecordLen + MaxTrailing

HeaderSeeds == {0, 123, 255}
BodySeeds == {7, 89, 171}

\* A buffer of n bytes: the first 8 bytes are drawn from the header seed, the
\* rest from the body seed, so that header and payload vary independently.
MkBuffer(n, h, s) ==
    [i \in 1..n |-> IF i <= HeaderLen THEN (h + (i - 1) * (h % 7)) % 256
                    ELSE (s * (i - HeaderLen) + (i \div 5) * 31) % 256]

Buffers == { MkBuffer(n, h, s) : n \in 0..MaxBufLen, h \in HeaderSeeds, s \in BodySeeds }

Min(a, b) == IF a < b THEN a ELSE b
Max(a, b) == IF a > b THEN a ELSE b

\* Buffer.subarray(start, end): 0-based, end exclusive, clamped to the buffer.
Subarray(buf, start, end) ==
    SubSeq(buf, Min(start, Len(buf)) + 1, Min(end, Len(buf)))

\* String.prototype.substring(start, end) on a sequence of characters.
Substring(str, start, end) ==
    SubSeq(str, Min(start, Len(str)) + 1, Min(end, Len(str)))

HexDigits == <<"0", "1", "2", "3", "4", "5", "6", "7",
               "8", "9", "a", "b", "c", "d", "e", "f">>

\* Buffer.toString("hex"): two lowercase hex digits per byte.
RECURSIVE ToHex(_)
ToHex(buf) ==
    IF buf = <<>> THEN <<>>
    ELSE <<HexDigits[(Head(buf) \div 16) + 1], HexDigits[(Head(buf) % 16) + 1]>>
         \o ToHex(Tail(buf))

\* formatUuid with the groups cut at the wrong offsets (8-4-4-4-12 miscounted).
FormatUuidShifted(buffer) ==
    LET hex == ToHex(buffer)
    IN  Substring(hex, 0, 8) \o <<"-">> \o Substring(hex, 8, 12) \o <<"-">>
        \o Substring(hex, 12, 16) \o <<"-">> \o Substring(hex, 16, 22) \o <<"-">>
        \o Substring(hex, 22, 32)

\* formatUuid: hex string cut into 8-4-4-4-12 groups joined by "-".
FormatUuid(buffer) ==
    LET hex == ToHex(buffer)
    IN  Substring(hex, 0, 8) \o <<"-">> \o Substring(hex, 8, 12) \o <<"-">>
        \o Substring(hex, 12, 16) \o <<"-">> \o Substring(hex, 16, 20) \o <<"-">>
        \o Substring(hex, 20, 32)

\* The IEEE-754 binary64 fields of the 8 bytes b[1..8], b[8] holding the sign and
\* the high exponent bits.  The 52-bit fraction is kept as three limbs of
\* 20, 16 and 16 bits.
DoubleOf(b) ==
    [sign     |-> b[8] \div 128,
     exponent |-> (b[8] % 128) * 16 + (b[7] \div 16),
     fraction |-> <<(b[7] % 16) * 65536 + b[6] * 256 + b[5],
                    b[4] * 256 + b[3],
                    b[2] * 256 + b[1]>>]

Reverse(s) == [i \in 1..Len(s) |-> s[Len(s) + 1 - i]]

RangeError == [threw |-> TRUE]

ReadDoubleBE(buf, offset) ==
    IF offset + ValueLen > Len(buf) THEN RangeError
    ELSE [threw |-> FALSE,
          value |-> DoubleOf(Reverse(SubSeq(buf, offset + 1, offset + ValueLen)))]

\* Buffer.readDoubleLE(offset): throws a RangeError past the end of the buffer.
ReadDoubleLE(buf, offset) ==
    IF offset + ValueLen > Len(buf) THEN RangeError
    ELSE [threw |-> FALSE,
          value |-> DoubleOf(SubSeq(buf, offset + 1, offset + ValueLen))]

\* The loop with an off-by-one bound (< instead of <=).
RECURSIVE DecodeLoopStrict(_, _, _)
DecodeLoopStrict(buf, offset, acc) ==
    IF offset + RecordLen < Len(buf)
    THEN LET value == ReadDoubleLE(buf, offset + UuidLen)
         IN  DecodeLoopStrict(buf, offset + UuidLen + ValueLen,
                 Append(acc, [uuid |-> FormatUuid(Subarray(buf, offset, offset + UuidLen)),
                              value |-> value.value]))
    ELSE [events |-> acc, threw |-> FALSE]

\* The while loop of handleBinaryMessage from a given offset: the events emitted
\* and whether readDoubleLE threw (the catch block then logs one error and the
\* loop is abandoned).
RECURSIVE DecodeLoop(_, _, _)
DecodeLoop(buf, offset, acc) ==
    IF offset + RecordLen <= Len(buf)
    THEN LET uuidBuffer == Subarray(buf, offset, offset + UuidLen)
             uuid == FormatUuid(uuidBuffer)
             value == ReadDoubleLE(buf, offset + UuidLen)
         IN  IF value.threw
             THEN [events |-> acc, threw |-> TRUE]
             ELSE DecodeLoop(buf, offset + UuidLen + ValueLen,
                             Append(acc, [uuid |-> uuid, value |-> value.value]))
    ELSE [events |-> acc, threw |-> FALSE]

\* handleBinaryMessage without the header skip (offset starts at 0).
DecodeFrameNoSkip(buf) ==
    IF Len(buf) < MinFrameLen THEN [events |-> <<>>, threw |-> FALSE]
    ELSE DecodeLoop(buf, 0, <<>>)

\* handleBinaryMessage: buffers under 24 bytes are dropped; otherwise the 8-byte
\* header is skipped and the records are decoded.
DecodeFrame(buf) ==
    IF Len(buf) < MinFrameLen THEN [events |-> <<>>, threw |-> FALSE]
    ELSE DecodeLoop(buf, HeaderLen, <<>>)

DecInit ==
    /\ SesIdle
    /\ BtnIdle
    /\ SrvIdle
    /\ MgrIdle
    /\ data \in Buffers
    /\ decPc = "recv"
    /\ emitted = <<>>
    /\ decErrors = 0
    /\ frame = "binary"
    /\ path = "none"
    /\ raised = FALSE

\* One call of handleBinaryMessage(data).
HandleBinaryMessage ==
    /\ decPc = "recv"
    /\ LET r == DecodeFrame(data)
       IN  /\ emitted' = r.events
           /\ decErrors' = IF r.threw THEN 1 ELSE 0
    /\ decPc' = "done"
    /\ UNCHANGED <<data, frame, path, raised, sesVars, btnVars, srvVars, mgrVars>>

\* The next inbound binary message arrives.
NextFrame ==
    /\ decPc = "done"
    /\ data' \in Buffers
    /\ decPc' = "recv"
    /\ emitted' = <<>>
    /\ decErrors' = 0
    /\ UNCHANGED <<frame, path, raised, sesVars, btnVars, srvVars, mgrVars>>

DecNext == HandleBinaryMessage \/ NextFrame

SpecDecoder == DecInit /\ [][DecNext]_vars

-----------------------------------------------------------------------------
(***************************************************************************)
(* Message routing: src/unnamed/part_001, LoxoneClient.handleMessage and   *)
(* handleJsonMessage.  A message is the sequence of its bytes; its text is *)
(* the sequence of the character codes of data.toString().                 *)
(***************************************************************************)

\* Character codes.
LBrace == 123
RBrace == 125
Quote == 34
ColonCode == 58
Comma == 44
Backslash == 92
Zero == 48
Nine == 57
Whitespace == {32, 9, 10, 13}
Replacement == 65533
NullWord == <<110, 117, 108, 108>>

\* Property names read by handleJsonMessage, as character codes.
NameLL == <<76, 76>>
NameControl == <<99, 111, 110, 116, 114, 111, 108>>
NameValue == <<118, 97, 108, 117, 101>>

\* Buffer.toString(): UTF-8 decoding.  A byte below 128 is the character of
\* that code; the bytes of 128 and above are rendered here one replacement
\* character each (a valid multi-byte sequence gives one other non-ASCII
\* character instead, which the parser below treats alike).
BufferToString(buf) == [i \in 1..Len(buf) |-> IF buf[i] < 128 THEN buf[i] ELSE Replacement]

\* String.prototype.startsWith for a one-character prefix.
StartsWith(text, c) == Len(text) >= 1 /\ text[1] = c

\* JSON values and JavaScript's undefined.
Undefined == [t |-> "undefined"]
Null == [t |-> "null"]
Str(s) == [t |-> "str", s |-> s]
Num(n) == [t |-> "num", n |-> n]
Obj(m) == [t |-> "obj", m |-> m]

SyntaxError == [ok |-> FALSE]
Parsed(v, next) == [ok |-> TRUE, val |-> v, next |-> next]

RECURSIVE SkipWs(_, _)
SkipWs(t, i) == IF i <= Len(t) /\ t[i] \in Whitespace THEN SkipWs(t, i + 1) ELSE i

\* The characters of a string literal from position i up to the closing quote.
\* Control characters end the parse; escapes are outside the texts modelled
\* and are refused.
RECURSIVE ParseString(_, _, _)
ParseString(t, i, acc) ==
    IF i > Len(t) \/ t[i] < 32 \/ t[i] = Backslash THEN SyntaxError
    ELSE IF t[i] = Quote THEN Parsed(Str(acc), i + 1)
    ELSE ParseString(t, i + 1, Append(acc, t[i]))

\* The digits of a number without sign, fraction or exponent.
RECURSIVE ParseDigits(_, _, _)
ParseDigits(t, i, n) ==
    IF i <= Len(t) /\ t[i] >= Zero /\ t[i] <= Nine
    THEN ParseDigits(t, i + 1, n * 10 + (t[i] - Zero))
    ELSE Parsed(Num(n), i)

RECURSIVE ParseValue(_, _)
RECURSIVE ParsePairs(_, _, _)

\* The members of an object after its first one was found to be present:
\* "name" : value, then "," and another member, or "}".
ParsePairs(t, i, acc) ==
    LET j == SkipWs(t, i)
    IN  IF j > Len(t) \/ t[j] # Quote THEN SyntaxError
        ELSE LET name == ParseString(t, j + 1, <<>>)
             IN  IF ~name.ok THEN SyntaxError
                 ELSE LET k == SkipWs(t, name.next)
                      IN  IF k > Len(t) \/ t[k] # ColonCode THEN SyntaxError
                          ELSE LET v == ParseValue(t, k + 1)
                               IN  IF ~v.ok THEN SyntaxError
                                   ELSE LET m == SkipWs(t, v.next)
                                            members == Append(acc, [name |-> name.val.s, val |-> v.val])
                                        IN  IF m > Len(t) THEN SyntaxError
                                            ELSE IF t[m] = Comma THEN ParsePairs(t, m + 1, members)
                                            ELSE IF t[m] = RBrace THEN Parsed(Obj(members), m + 1)
                                            ELSE SyntaxError

\* One JSON value from position i: an object, a string, a number or null.
ParseValue(t, i) ==
    LET j == SkipWs(t, i)
    IN  IF j > Len(t) THEN SyntaxError
        ELSE IF t[j] = LBrace
             THEN LET k == SkipWs(t, j + 1)
                  IN  IF k <= Len(t) /\ t[k] = RBrace THEN Parsed(Obj(<<>>), k + 1)
                      ELSE ParsePairs(t, k, <<>>)
        ELSE IF t[j] = Quote THEN ParseString(t, j + 1, <<>>)
        ELSE IF t[j] = Zero THEN Parsed(Num(0), j + 1)
        ELSE IF t[j] > Zero /\ t[j] <= Nine THEN ParseDigits(t, j, 0)
        ELSE IF Substring(t, j - 1, j + 3) = NullWord THEN Parsed(Null, j + 4)
        ELSE SyntaxError

\* JSON.parse(text): one value and nothing but whitespace after it; anything
\* else throws a SyntaxError.
JsonParse(text) ==
    LET v == ParseValue(text, 1)
    IN  IF v.ok /\ SkipWs(text, v.next) > Len(text) THEN v ELSE SyntaxError

\* object[name]: the value of the last member of that name, undefined without
\* one and on strings and numbers.
RECURSIVE Lookup(_, _, _)
Lookup(m, name, i) ==
    IF i = 0 THEN Undefined
    ELSE IF m[i].name = name THEN m[i].val
    ELSE Lookup(m, name, i - 1)

Prop(v, name) == IF v.t = "obj" THEN Lookup(v.m, name, Len(v.m)) ELSE Undefined

\* v?.name
OptChain(v, name) == IF v.t \in {"null", "undefined"} THEN Undefined ELSE Prop(v, name)

\* JavaScript truthiness of a JSON value.
Truthy(v) ==
    CASE v.t = "str" -> v.s # <<>>
      [] v.t = "num" -> v.n # 0
      [] v.t = "obj" -> TRUE
      [] OTHER -> FALSE

\* handleJsonMessage: the events emitted for a parsed message.
HandleJsonMessage(message) ==
    LET LL == Prop(message, NameLL)
        control == OptChain(LL, NameControl)
        value == OptChain(LL, NameValue)
    IN  IF Truthy(control) /\ value.t # "undefined"
        THEN <<[uuid |-> control, value |-> value]>>
        ELSE <<>>

\* The body of handleMessage's try block: the branch taken, the events emitted,
\* the errors logged and whether an exception reached the catch block.
TryHandle(buf) ==
    LET text == BufferToString(buf)
    IN  IF StartsWith(text, LBrace)
        THEN LET message == JsonParse(text)
             IN  IF message.ok
                 THEN [path |-> "json", events |-> HandleJsonMessage(message.val),
                       logged |-> 0, thrown |-> FALSE]
                 ELSE [path |-> "json", events |-> <<>>, logged |-> 0, thrown |-> TRUE]
        ELSE LET r == DecodeFrame(buf)
             IN  [path |-> "binary", events |-> r.events,
                  logged |-> IF r.threw THEN 1 ELSE 0, thrown |-> FALSE]

\* Texts the controller may send: answers with and without the two fields,
\* with empty, zero and null fields, other JSON values, truncated and
\* malformed texts, a text with leading whitespace and the empty message.
TextLL(members) == <<LBrace, Quote>> \o NameLL \o <<Quote, ColonCode>> \o members \o <<RBrace>>
Member(name, v) == <<Quote>> \o name \o <<Quote, ColonCode>> \o v
Literals == { <<Quote, 117, Quote>>, <<Quote, Quote>>, <<49>>, <<Zero>>, NullWord, <<LBrace, RBrace>> }
Texts ==
    { TextLL(<<LBrace>> \o Member(NameControl, c) \o <<Comma>> \o Member(NameValue, v) \o <<RBrace>>) :
          c \in Literals, v \in Literals }
    \cup { TextLL(<<LBrace>> \o Member(n, v) \o <<RBrace>>) :
              n \in {NameControl, NameValue}, v \in Literals }
    \cup { TextLL(v) : v \in Literals }
    \cup { <<LBrace, RBrace>>, <<LBrace>>, <<LBrace, 32, RBrace, 32>>, <<LBrace, RBrace, RBrace>>,
           <<LBrace, Quote>> \o NameLL \o <<Quote, RBrace>>,
           <<LBrace, Quote>> \o NameLL \o <<Quote, ColonCode, RBrace>>,
           <<32, LBrace, RBrace>>, <<Quote, 117, Quote>>, <<49>>, NullWord, <<>>,
           <<LBrace, 200, RBrace>> }

RouteInit ==
    /\ SesIdle
    /\ BtnIdle
    /\ SrvIdle
    /\ MgrIdle
    /\ \/ frame = "binary" /\ data \in Buffers
       \/ frame = "text" /\ data \in Texts
    /\ decPc = "recv"
    /\ emitted = <<>>
    /\ decErrors = 0
    /\ path = "none"
    /\ raised = FALSE

\* ws.on("message"): one call of handleMessage(data).  The catch block takes
\* every exception of the try block and does nothing.
HandleMessage ==
    /\ decPc = "recv"
    /\ LET r == TryHandle(data)
       IN  /\ path' = r.path
           /\ emitted' = r.events
           /\ decErrors' = r.logged
    /\ raised' = FALSE
    /\ decPc' = "done"
    /\ UNCHANGED <<data, frame, sesVars, btnVars, srvVars, mgrVars>>

\* The next inbound message arrives, sent as a text or as a binary frame.
NextMessage ==
    /\ decPc = "done"
    /\ \/ frame' = "binary" /\ data' \in Buffers
       \/ frame' = "text" /\ data' \in Texts
    /\ decPc' = "recv"
    /\ emitted' = <<>>
    /\ decErrors' = 0
    /\ path' = "none"
    /\ raised' = FALSE
    /\ UNCHANGED <<sesVars, btnVars, srvVars, mgrVars>>

RouteNext == HandleMessage \/ NextMessage

SpecRoute == RouteInit /\ [][RouteNext]_vars

-----------------------------------------------------------------------------
(***************************************************************************)
(* Realtime session: src/unnamed/part_001, class LoxoneClient              *)
(***************************************************************************)

\* Bounds of the session model.
MaxConn == 2      \* WebSockets created (connect attempts)
MaxTimers == 2    \* 5000 ms timeouts pending at once

\* process.once("uncaughtException", ...) of the SDK absorbs one uncaught
\* exception; the next one ends the process.
UncaughtLimit == 2

\* Inbound messages by what JSON.parse and text.startsWith("{") make of them:
\*   jsonValue: an object with LL.control and LL.value
\*   jsonOther: an object without LL
\*   badJson:   text that starts with "{" and does not parse
\*   binary:    anything else (does not parse, does not start with "{")
MsgKinds == {"jsonValue", "jsonOther", "badJson", "binary"}

HandshakeSteps == {"auth", "catalog", "enable"}

NoTimer == [kind |-> "reconnect", owner |-> "none", sock |-> 0,
            state |-> "none", listening |-> FALSE]

\* The session's fields as one record, so that a handler is a function on it.
SesCur ==
    [ws |-> ws, rs |-> rs, authenticated |-> authenticated,
     structureFile |-> structureFile, reconnectTimer |-> reconnectTimer,
     keepAliveTimer |-> keepAliveTimer, kaLeaked |-> kaLeaked, timers |-> timers,
     hsLog |-> hsLog, lastSend |-> lastSend, lastRouted |-> lastRouted,
     lastEmit |-> lastEmit, stale |-> stale, lastSettle |-> lastSettle,
     uncaught |-> uncaught]

\* The fields at the start of a handler: nothing settled yet in this step.
SesStep == [SesCur EXCEPT !.lastSettle = <<>>]

SesCommit(S) ==
    /\ ws' = S.ws
    /\ rs' = S.rs
    /\ authenticated' = S.authenticated
    /\ structureFile' = S.structureFile
    /\ reconnectTimer' = S.reconnectTimer
    /\ keepAliveTimer' = S.keepAliveTimer
    /\ kaLeaked' = S.kaLeaked
    /\ timers' = S.timers
    /\ hsLog' = S.hsLog
    /\ lastSend' = S.lastSend
    /\ lastRouted' = S.lastRouted
    /\ lastEmit' = S.lastEmit
    /\ stale' = S.stale
    /\ lastSettle' = S.lastSettle
    /\ uncaught' = S.uncaught

\* The process is still running.
Alive == uncaught < UncaughtLimit

\* this.ws && this.ws.readyState === WebSocket.OPEN
CanSend(S) == S.ws # 0 /\ S.rs[S.ws] = "OPEN"

LogHs(S, g, e) == [S EXCEPT !.hsLog[g] = Append(@, e)]

\* The promise of a request of the given owner settles: "resolved", or rejected
\* with the error whose message is given.
Settle(S, owner, result) ==
    [S EXCEPT !.lastSettle = Append(@, [owner |-> owner, result |-> result])]

\* sendCommand: rejects at once when the socket is not open; otherwise registers
\* a once("message") listener on this.ws, sends the command and starts the
\* 5000 ms timeout.  ok tells whether the request went out.
SendCommand(S, owner) ==
    IF ~CanSend(S) THEN [ok |-> FALSE, s |-> S]
    ELSE [ok |-> TRUE,
          s  |-> [S EXCEPT !.timers = Append(@, [kind |-> "cmd", owner |-> owner,
                                                 sock |-> S.ws, state |-> "pending",
                                                 listening |-> TRUE]),
                           !.lastSend = owner]]

\* One handshake request of the open handler of socket g: sent, or failed at once
\* (the catch block then rejects connect()).
HandshakeSend(S, g, step) ==
    LET r == SendCommand(S, step)
    IN  IF r.ok THEN LogHs(r.s, g, "tx_" \o step)
        ELSE LogHs(Settle(S, step, "WebSocket not connected"), g, "fail_" \o step)

\* startKeepAlive: a new interval whose handle overwrites this.keepAliveTimer.
StartKeepAlive(S) ==
    [S EXCEPT !.kaLeaked = IF S.keepAliveTimer THEN @ + 1 ELSE @,
              !.keepAliveTimer = TRUE]

\* stopKeepAlive: clears the interval whose handle is stored, if any.
StopKeepAlive(S) == [S EXCEPT !.keepAliveTimer = FALSE]

\* scheduleReconnect: one 5000 ms timeout unless one is already pending.
ScheduleReconnect(S) ==
    IF S.reconnectTimer THEN S
    ELSE [S EXCEPT !.reconnectTimer = TRUE, !.timers = Append(@, NoTimer)]

\* The open handler with authenticate() not awaited.
OpenHandlerNoAwait(S, g) ==
    LET r == SendCommand(S, "auth")
    IN  IF r.ok
        THEN HandshakeSend([LogHs(r.s, g, "tx_auth") EXCEPT !.authenticated = TRUE],
                           g, "catalog")
        ELSE LogHs(S, g, "fail_auth")

\* ws.on("open"): the handler runs up to its first await, inside authenticate().
OpenHandler(S, g) == HandshakeSend(S, g, "auth")

\* response && response.LL
HasLL(kind) == kind = "jsonValue"

\* The open handler with the answer to authenticate inspected: anything but an
\* object with LL fails the handshake.
HandshakeResumeCheckedAuth(S, g, step, kind) ==
    CASE step = "auth" ->
            IF HasLL(kind)
            THEN HandshakeSend([S EXCEPT !.authenticated = TRUE], g, "catalog")
            ELSE LogHs(S, g, "fail_auth")
      [] step = "catalog" ->
            HandshakeSend([S EXCEPT !.structureFile = IF HasLL(kind) THEN TRUE ELSE @],
                          g, "enable")
      [] step = "enable" ->
            LogHs([LogHs(StartKeepAlive(S), g, "keepalive")
                       EXCEPT !.lastEmit = "connected"], g, "connected")

\* The open handler with startKeepAlive() placed before enableStatusUpdates().
HandshakeResumeEarlyKeepAlive(S, g, step, kind) ==
    CASE step = "auth" ->
            HandshakeSend([S EXCEPT !.authenticated = TRUE], g, "catalog")
      [] step = "catalog" ->
            HandshakeSend(StartKeepAlive(S), g, "enable")
      [] step = "enable" ->
            LogHs([S EXCEPT !.lastEmit = "connected"], g, "connected")

\* The open handler resumed after the step's request was answered by a message of
\* the given kind: the rest of the step, then the next request or the final part.
HandshakeResume(S, g, step, kind) ==
    CASE step = "auth" ->
            HandshakeSend([S EXCEPT !.authenticated = TRUE], g, "catalog")
      [] step = "catalog" ->
            HandshakeSend([S EXCEPT !.structureFile = IF HasLL(kind) THEN TRUE ELSE @],
                          g, "enable")
      [] step = "enable" ->
            LogHs([LogHs(StartKeepAlive(S), g, "keepalive")
                       EXCEPT !.lastEmit = "connected"], g, "connected")

\* The message listener of timers[i] is called with a message of the given kind:
\* the listener is gone (once) and, if the request is still pending, it resolves
\* and its awaiting caller resumes.
ResolveEntry(S, i, kind) ==
    LET e  == S.timers[i]
        S1 == [S EXCEPT !.timers[i].listening = FALSE,
                        !.timers[i].state = IF e.state = "pending" THEN "resolved" ELSE @]
        S2 == Settle(S1, e.owner, "resolved")
    IN  IF e.state # "pending" THEN S1
        ELSE IF e.owner \in HandshakeSteps
             THEN HandshakeResume(LogHs(S2, e.sock, "rx_" \o e.owner), e.sock, e.owner, kind)
             ELSE S2

\* The listeners registered on socket g when the message arrives, in
\* registration order, each called once.
RECURSIVE ResolveAll(_, _, _, _)
ResolveAll(S, g, kind, i) ==
    IF i > Len(timers) THEN S
    ELSE IF timers[i].kind = "cmd" /\ timers[i].listening /\ timers[i].sock = g
         THEN ResolveAll(ResolveEntry(S, i, kind), g, kind, i + 1)
         ELSE ResolveAll(S, g, kind, i + 1)

\* handleMessage: JSON path for text starting with "{", binary path otherwise.
Route(kind) ==
    CASE kind = "jsonValue" -> "valueChange"
      [] kind = "jsonOther" -> "jsonIgnored"
      [] kind = "badJson"   -> "parseError"
      [] kind = "binary"    -> "binary"

\* The listeners left on socket g by timed-out requests are called: each is gone
\* (once) and its resolve finds the promise already rejected.
StaleCalled(S, g) == [S EXCEPT !.stale = { x \in @ : x.sock # g }]

\* The timeout callback of a request with the promise rejected whether or not it
\* was answered.
TimeoutEntryAlways(S, e) ==
    LET S1 == IF e.listening /\ e.sock # S.ws
              THEN [S EXCEPT !.stale = @ \cup {[owner |-> e.owner, sock |-> e.sock]}]
              ELSE S
        S2 == Settle(S1, e.owner, "Command timeout")
    IN  IF e.owner \in HandshakeSteps THEN LogHs(S2, e.sock, "fail_" \o e.owner) ELSE S2

\* The timeout callback of request e, 5000 ms after it was sent:
\* this.ws?.off("message", messageHandler) takes the listener off the socket that
\* is current now (the listener stays if the request went out on another one), and
\* reject(new Error("Command timeout")) settles the promise if it is still pending.
TimeoutEntry(S, e) ==
    LET S1 == IF e.listening /\ e.sock # S.ws
              THEN [S EXCEPT !.stale = @ \cup {[owner |-> e.owner, sock |-> e.sock]}]
              ELSE S
        S2 == Settle(S1, e.owner, "Command timeout")
    IN  IF e.state # "pending" THEN S1
        ELSE IF e.owner \in HandshakeSteps THEN LogHs(S2, e.sock, "fail_" \o e.owner)
        ELSE S2

\* getClient hands the client to a button only after connect() has resolved.
HasConnected ==
    \E g \in 1..Len(hsLog) : \E i \in 1..Len(hsLog[g]) : hsLog[g][i] = "connected"

SesInit == SesIdle /\ DecIdle /\ BtnIdle /\ SrvIdle /\ MgrIdle

\* LoxoneConnectionManager.getClient creates the client and calls connect().
Connect ==
    /\ Alive
    /\ rs = <<>>
    /\ SesCommit([SesStep EXCEPT !.rs = Append(@, "CONNECTING"), !.ws = 1,
                                !.hsLog = Append(@, <<>>)])
    /\ UNCHANGED <<decVars, btnVars, srvVars, mgrVars>>

\* The transport of socket g opens.
WsOpen(g) ==
    /\ Alive
    /\ rs[g] = "CONNECTING"
    /\ SesCommit(OpenHandler([SesStep EXCEPT !.rs[g] = "OPEN"], g))
    /\ UNCHANGED <<decVars, btnVars, srvVars, mgrVars>>

\* An inbound message on socket g: handleMessage, then the pending requests'
\* listeners.
WsMessage(g, kind) ==
    /\ Alive
    /\ rs[g] \in {"OPEN", "CLOSING"}
    /\ Len(timers) < MaxTimers
    /\ SesCommit(ResolveAll(StaleCalled([SesStep EXCEPT !.lastRouted = Route(kind)], g),
                             g, kind, 1))
    /\ UNCHANGED <<decVars, btnVars, srvVars, mgrVars>>

\* ws.on("error"): logs and re-emits "error" on the client, which has no
\* "error" listener, so the emit throws.
WsError(g) ==
    /\ Alive
    /\ rs[g] \in {"CONNECTING", "OPEN", "CLOSING"}
    /\ SesCommit([SesStep EXCEPT !.rs[g] = "CLOSING", !.lastEmit = "error",
                                !.uncaught = @ + 1])
    /\ UNCHANGED <<decVars, btnVars, srvVars, mgrVars>>

\* ws.on("close")
WsClose(g) ==
    /\ Alive
    /\ rs[g] \in {"OPEN", "CLOSING"}
    /\ SesCommit(ScheduleReconnect(
            [StopKeepAlive([SesStep EXCEPT !.rs[g] = "CLOSED", !.authenticated = FALSE,
                                           !.stale = { x \in @ : x.sock # g }])
                EXCEPT !.lastEmit = "disconnected"]))
    /\ UNCHANGED <<decVars, btnVars, srvVars, mgrVars>>

\* The oldest 5000 ms timeout fires: a command timeout removes its listener and
\* rejects a request that is still pending; the reconnect timeout calls connect().
TimerFire ==
    /\ Alive
    /\ timers # <<>>
    /\ LET e == Head(timers)
           S == [SesStep EXCEPT !.timers = Tail(@)]
       IN  IF e.kind = "cmd"
           THEN SesCommit(TimeoutEntry(S, e))
           ELSE /\ Len(rs) < MaxConn
                /\ SesCommit([S EXCEPT !.reconnectTimer = FALSE,
                                       !.rs = Append(@, "CONNECTING"),
                                       !.ws = Len(rs) + 1,
                                       !.hsLog = Append(@, <<>>)])
    /\ UNCHANGED <<decVars, btnVars, srvVars, mgrVars>>

\* A tick of a keep-alive interval that sends without looking at the socket.
KeepAliveTickUnchecked ==
    /\ Alive
    /\ keepAliveTimer \/ kaLeaked > 0
    /\ SesCommit([SesStep EXCEPT !.lastSend = "keepalive"])
    /\ UNCHANGED <<decVars, btnVars, srvVars, mgrVars>>

\* A tick of a running keep-alive interval.
KeepAliveTick ==
    /\ Alive
    /\ keepAliveTimer \/ kaLeaked > 0
    /\ SesCommit(IF CanSend(SesStep) THEN [SesStep EXCEPT !.lastSend = "keepalive"]
                 ELSE SesStep)
    /\ UNCHANGED <<decVars, btnVars, srvVars, mgrVars>>

\* sendControl that returns as soon as the socket has taken the command, with
\* no listener and no timeout.
SendControlNoWait ==
    /\ Alive
    /\ HasConnected
    /\ Len(timers) < MaxTimers
    /\ SesCommit(IF ~authenticated THEN Settle(SesStep, "control", "Not authenticated")
                 ELSE IF CanSend(SesStep)
                      THEN Settle([SesStep EXCEPT !.lastSend = "control"], "control", "resolved")
                      ELSE Settle(SesStep, "control", "WebSocket not connected"))
    /\ UNCHANGED <<decVars, btnVars, srvVars, mgrVars>>

\* sendControl without the test of the authenticated flag.
SendControlUnchecked ==
    /\ Alive
    /\ HasConnected
    /\ Len(timers) < MaxTimers
    /\ SesCommit(LET r == SendCommand(SesStep, "control")
                 IN  IF r.ok THEN r.s
                     ELSE Settle(SesStep, "control", "WebSocket not connected"))
    /\ UNCHANGED <<decVars, btnVars, srvVars, mgrVars>>

\* sendControl(uuid, command), called by a button that holds the client.
SendControl ==
    /\ Alive
    /\ HasConnected
    /\ Len(timers) < MaxTimers
    /\ SesCommit(IF ~authenticated THEN Settle(SesStep, "control", "Not authenticated")
                 ELSE LET r == SendCommand(SesStep, "control")
                      IN  IF r.ok THEN r.s
                          ELSE Settle(SesStep, "control", "WebSocket not connected"))
    /\ UNCHANGED <<decVars, btnVars, srvVars, mgrVars>>

\* disconnect()
Disconnect ==
    /\ Alive
    /\ rs # <<>>
    /\ LET S1 == IF reconnectTimer
                 THEN [SesStep EXCEPT !.reconnectTimer = FALSE,
                                      !.timers = SelectSeq(@, LAMBDA t : t.kind # "reconnect")]
                 ELSE SesStep
           S2 == StopKeepAlive(S1)
       IN  SesCommit(IF S2.ws = 0 THEN S2
                     ELSE [S2 EXCEPT !.rs[S2.ws] = IF @ \in {"CONNECTING", "OPEN"}
                                                   THEN "CLOSING" ELSE @,
                                     !.ws = 0])
    /\ UNCHANGED <<decVars, btnVars, srvVars, mgrVars>>

SesNext ==
    \/ Connect
    \/ \E g \in 1..Len(rs) : WsOpen(g)
    \/ \E g \in 1..Len(rs), kind \in MsgKinds : WsMessage(g, kind)
    \/ \E g \in 1..Len(rs) : WsError(g)
    \/ \E g \in 1..Len(rs) : WsClose(g)
    \/ TimerFire
    \/ KeepAliveTick
    \/ SendControl
    \/ Disconnect

SpecSession == SesInit /\ [][SesNext]_vars

\* The close event of a connection that was established (its open handler ran)
\* and is closing.
EstablishedCloses ==
    \E g \in 1..Len(rs) : hsLog[g] # <<>> /\ rs[g] = "CLOSING" /\ WsClose(g)

\* The session with what the event loop guarantees: a pending timeout fires, and
\* an established connection that is closing emits its close event.
SpecSessionLive ==
    SesInit /\ [][SesNext]_vars /\ WF_vars(TimerFire) /\ WF_vars(EstablishedCloses)

-----------------------------------------------------------------------------
(***************************************************************************)
(* Buttons: src/src/actions/switch-action.ts, dimmer-action.ts,            *)
(* blind-action.ts                                                         *)
(***************************************************************************)

\* Bounds of the button model.
MaxSusp == 1       \* onWillAppear calls suspended at once
MaxFetch == 1      \* catalog fetches in flight per button
MaxRequests == 2   \* command requests in flight, and key presses kept in keyLog

Kinds == {"switch", "dimmer", "blind", "pulse"}

\* const stepSize = Number(settings.stepSize) || 5   (dimmer)   || 10   (blind)
DimmerDefaultStep == 5
BlindDefaultStep == 10
LevelMin == 0
LevelMax == 100

\* Settings as the handlers read them: creds = host, username and password all
\* present; uuid = controlUuid present; named = controlName present; stepSize =
\* Number(settings.stepSize), 0 standing for absent, zero or not a number.
StepSizes == {-5, 0, 7, 10}
AllSettings == [creds : BOOLEAN, uuid : BOOLEAN, named : BOOLEAN, stepSize : StepSizes]
InitialSettings == { st \in AllSettings : st.creds \/ st.uuid }

\* The settings a didReceiveSettings event may carry for button b: the
\* connection and target fields may change, name and step size stay.
NewSettings(b) ==
    { st \in InitialSettings :
        st.named = settings[b].named /\ st.stepSize = settings[b].stepSize }

\* What the controller's answers to a catalog fetch look like to the callback:
\*   error:     curl failed          badJson: JSON.parse throws
\*   noControl: no entry (or no states) for the uuid
\*   states:    the entry's states; active is a number, value and position are
\*              absent ({}) or a number given in tenths ({374} is 37.4)
FetchBody(status, active, value, position) ==
    [status |-> status, active |-> active, value |-> value, position |-> position]

FetchBodies ==
    { FetchBody(st, 0, {}, {}) : st \in {"error", "badJson", "noControl"} }
    \cup { FetchBody("states", a, {}, {}) : a \in {0, 1, 2} }
    \cup { FetchBody("states", 0, v, {}) : v \in {{374}, {1000}} }
    \cup { FetchBody("states", 0, {}, {375}) }
    \cup { FetchBody("states", 0, {0}, {1000}), FetchBody("states", 0, {1000}, {0}) }

\* How a command request (curl -w "%{http_code}") ends.
CmdOutcomes == {"200", "500", "error"}

MapHas(mp, k) == k \in DOMAIN mp
MapSet(mp, k, v) == [x \in DOMAIN mp \cup {k} |-> IF x = k THEN v ELSE mp[x]]
MapDelete(mp, k) == [x \in DOMAIN mp \ {k} |-> mp[x]]

\* map.get(id) || false     and     map.get(id) || 0
GetOrFalse(mp, k) == IF MapHas(mp, k) THEN mp[k] ELSE FALSE
GetOrZero(mp, k) == IF MapHas(mp, k) THEN mp[k] ELSE 0

\* Math.round of a number given in tenths.
Round(tenths) == (tenths + 5) \div 10

DefaultName(k) ==
    CASE k = "switch" -> "Switch" [] k = "dimmer" -> "Dimmer" [] k = "blind" -> "Blind"

\* controlName ? String(controlName) : <default of the class>
NameOf(b, st) == IF st.named THEN "name" ELSE DefaultName(actionKind[b])

Configured(st) == st.creds
Complete(st) == st.creds /\ st.uuid

\* The buttons' state as one record, so that a handler is a function on it.
BtnCur ==
    [shown |-> shown, settings |-> settings, susp |-> susp,
     switchStates |-> switchStates, currentValues |-> currentValues,
     dimmerStates |-> dimmerStates, pollingIntervals |-> pollingIntervals,
     leakedTimers |-> leakedTimers, fetchInflight |-> fetchInflight,
     fetchAge |-> fetchAge,
     cmdInflight |-> cmdInflight, title |-> title, indicator |-> indicator,
     feedback |-> feedback, lastEv |-> lastEv, flash |-> "none", keyLog |-> keyLog]

BtnCommit(B) ==
    /\ shown' = B.shown
    /\ settings' = B.settings
    /\ susp' = B.susp
    /\ switchStates' = B.switchStates
    /\ currentValues' = B.currentValues
    /\ dimmerStates' = B.dimmerStates
    /\ pollingIntervals' = B.pollingIntervals
    /\ leakedTimers' = B.leakedTimers
    /\ fetchInflight' = B.fetchInflight
    /\ fetchAge' = B.fetchAge
    /\ cmdInflight' = B.cmdInflight
    /\ title' = B.title
    /\ indicator' = B.indicator
    /\ feedback' = B.feedback
    /\ lastEv' = B.lastEv
    /\ flash' = B.flash
    /\ keyLog' = B.keyLog
    /\ UNCHANGED <<actionKind, ageKept>>

SetTitle(B, b, name, text, pct) ==
    [B EXCEPT !.title[b] = [name |-> name, text |-> text, pct |-> pct]]

\* fetchCurrentState: starts one curl of the catalog; its callback runs later.
FetchCurrentState(B, b) ==
    [B EXCEPT !.fetchInflight[b] = @ + 1,
              !.fetchAge[b] = IF ageKept THEN Append(@, [after |-> {}, stale |-> FALSE])
                              ELSE @]

\* onWillAppear that starts the timer and leaves the first fetch to its first tick.
StartPollingTimerOnly(B, b) ==
    [B EXCEPT !.leakedTimers = IF b \in B.pollingIntervals THEN @ \cup {b} ELSE @,
              !.pollingIntervals = @ \cup {b}]

\* The immediate fetch, setInterval and pollingIntervals.set of onWillAppear.  A
\* handle already stored for the button is overwritten; its interval keeps running.
StartPolling(B, b) ==
    [FetchCurrentState(B, b)
        EXCEPT !.leakedTimers = IF b \in B.pollingIntervals THEN @ \cup {b} ELSE @,
               !.pollingIntervals = @ \cup {b}]

\* SwitchAction.updateButtonState, whole (title, then state after the await).
UpdateButtonState(B, b, isOn, st) ==
    [SetTitle(B, b, NameOf(b, st), IF isOn THEN "ON" ELSE "OFF", 0)
        EXCEPT !.indicator[b] = IF isOn THEN 1 ELSE 0]

\* onWillAppear after its await: if (settings.controlUuid) { fetch; poll }.
AppearRest(B, b, st) == IF st.uuid THEN StartPolling(B, b) ELSE B

Suspend(B, b, st) == [B EXCEPT !.susp = Append(@, [b |-> b, st |-> st])]

\* onWillAppear up to its first await (or to its end when it awaits nothing).
OnWillAppear(B, b, st) ==
    IF ~Configured(st) THEN SetTitle(B, b, "", "Configure", 0)
    ELSE CASE actionKind[b] = "switch" ->
                Suspend(SetTitle([B EXCEPT !.switchStates = MapSet(@, b, FALSE)],
                                 b, NameOf(b, st), "OFF", 0), b, st)
           [] actionKind[b] = "dimmer" ->
                LET B1 == [B EXCEPT !.currentValues = MapSet(@, b, 0),
                                    !.dimmerStates = MapSet(@, b, FALSE)]
                IN  IF st.named THEN Suspend(SetTitle(B1, b, "name", "", 0), b, st)
                    ELSE AppearRest(B1, b, st)
           [] actionKind[b] = "blind" ->
                LET B1 == [B EXCEPT !.currentValues = MapSet(@, b, 0)]
                IN  IF st.named THEN Suspend(SetTitle(B1, b, "name", "", 0), b, st)
                    ELSE AppearRest(B1, b, st)
           [] actionKind[b] = "pulse" ->
                IF st.named THEN SetTitle(B, b, "name", "", 0) ELSE B

\* The suspended onWillAppear resumed: for a switch updateButtonState finishes
\* (setState(0)); then the fetch and the poll timer.
OnWillAppearResume(B, b, st) ==
    AppearRest(IF actionKind[b] = "switch" THEN [B EXCEPT !.indicator[b] = 0] ELSE B,
               b, st)

\* onWillDisappear
OnWillDisappear(B, b) ==
    LET B1 == IF b \in B.pollingIntervals
              THEN [B EXCEPT !.pollingIntervals = @ \ {b}]
              ELSE B
    IN  CASE actionKind[b] = "switch" ->
                [B1 EXCEPT !.switchStates = MapDelete(@, b)]
          [] actionKind[b] = "dimmer" ->
                [B1 EXCEPT !.currentValues = MapDelete(@, b),
                           !.dimmerStates = MapDelete(@, b)]
          [] actionKind[b] = "blind" ->
                [B1 EXCEPT !.currentValues = MapDelete(@, b)]
          [] actionKind[b] = "pulse" -> B

\* onDidReceiveSettings that looks at the target identifier only.
OnDidReceiveSettingsAnyUuid(B, b, st) ==
    IF actionKind[b] = "pulse"
    THEN IF st.named THEN SetTitle(B, b, "name", "", 0) ELSE B
    ELSE IF st.uuid THEN FetchCurrentState(B, b)
    ELSE IF st.named THEN SetTitle(B, b, "name", "", 0)
    ELSE B

\* onDidReceiveSettings
OnDidReceiveSettings(B, b, st) ==
    IF actionKind[b] = "pulse"
    THEN IF st.named THEN SetTitle(B, b, "name", "", 0) ELSE B
    ELSE IF Complete(st) THEN FetchCurrentState(B, b)
    ELSE IF st.named THEN SetTitle(B, b, "name", "", 0)
    ELSE B

\* control.states.value ?? control.states.position ?? 0   (tenths)
DimmerValue(body) ==
    IF body.value # {} THEN CHOOSE v \in body.value : TRUE
    ELSE IF body.position # {} THEN CHOOSE v \in body.position : TRUE
    ELSE 0

\* control.states.position || control.states.value || 0   (tenths)
BlindPosition(body) ==
    IF body.position # {} /\ body.position # {0} THEN CHOOSE v \in body.position : TRUE
    ELSE IF body.value # {} /\ body.value # {0} THEN CHOOSE v \in body.value : TRUE
    ELSE 0

\* The poll callback of a switch that records the state and leaves the button
\* as it is drawn.
SwitchFetchedStateOnly(B, b, body, st) ==
    IF body.status # "states" THEN B
    ELSE [B EXCEPT !.switchStates = MapSet(@, b, body.active = 1)]

\* The callback of fetchCurrentState of a switch.
SwitchFetched(B, b, body, st) ==
    IF body.status # "states" THEN B
    ELSE LET isOn == body.active = 1
         IN  UpdateButtonState([B EXCEPT !.switchStates = MapSet(@, b, isOn)], b, isOn, st)

\* The callback of fetchCurrentState of a dimmer.
DimmerFetched(B, b, body, st) ==
    IF body.status # "states" THEN B
    ELSE LET percentage == Round(DimmerValue(body))
         IN  [SetTitle([B EXCEPT !.currentValues = MapSet(@, b, percentage),
                                 !.dimmerStates = MapSet(@, b, percentage > 0)],
                       b, NameOf(b, st), "%", percentage)
                 EXCEPT !.indicator[b] = IF percentage > 0 THEN 1 ELSE 0]

\* The callback of fetchCurrentState of a blind that takes a missing entry for
\* position 0.
BlindFetchedDefaulting(B, b, body, st) ==
    IF body.status \in {"error", "badJson"} THEN B
    ELSE LET percentage == IF body.status = "states" THEN Round(BlindPosition(body)) ELSE 0
         IN  [SetTitle([B EXCEPT !.currentValues = MapSet(@, b, percentage)],
                       b, NameOf(b, st), "%", percentage)
                 EXCEPT !.feedback[b] = {percentage}]

\* The callback of fetchCurrentState of a blind.
BlindFetched(B, b, body, st) ==
    IF body.status # "states" THEN B
    ELSE LET percentage == Round(BlindPosition(body))
         IN  [SetTitle([B EXCEPT !.currentValues = MapSet(@, b, percentage)],
                       b, NameOf(b, st), "%", percentage)
                 EXCEPT !.feedback[b] = {percentage}]

Fetched(B, b, body, st) ==
    CASE actionKind[b] = "switch" -> SwitchFetched(B, b, body, st)
      [] actionKind[b] = "dimmer" -> DimmerFetched(B, b, body, st)
      [] actionKind[b] = "blind"  -> BlindFetched(B, b, body, st)

\* A command request in flight: the values its callback has captured.  tag tells
\* apart requests that are otherwise alike (for a switch key press, its index
\* in keyLog).
Request(b, op, verb, newState, newValue, tag) ==
    [b |-> b, op |-> op, verb |-> verb, newState |-> newState,
     newValue |-> newValue, tag |-> tag]

Alike(r, q) ==
    /\ r.b = q.b /\ r.op = q.op /\ r.verb = q.verb
    /\ r.newState = q.newState /\ r.newValue = q.newValue

\* exec(curlCommand, callback) of a command.
Exec(B, b, op, verb, newState, newValue) ==
    LET r0 == Request(b, op, verb, newState, newValue, 0)
        used == { q.tag : q \in { x \in B.cmdInflight : Alike(x, r0) } }
        free == CHOOSE t \in 1..(Cardinality(used) + 1) :
                    t \notin used /\ \A u \in 1..(t - 1) : u \in used
        tag == IF actionKind[b] = "switch" THEN Len(B.keyLog[b]) ELSE free
        r == Request(b, op, verb, newState, newValue, tag)
        older == B.fetchAge[b]
    IN  [B EXCEPT !.cmdInflight = @ \cup {r},
                  !.fetchAge[b] = [i \in 1..Len(older) |->
                                      [older[i] EXCEPT !.after = @ \cup {r}]]]

\* showAlert and showOk flash the key on the device and change nothing the
\* plugin keeps.
ShowAlert(B, b) == [B EXCEPT !.flash = "alert"]
ShowOk(B, b) == [B EXCEPT !.flash = "ok"]

\* SwitchAction.onKeyDown up to exec.  keyLog keeps, for every request issued,
\* its verb and later whether it was answered with code 200.
SwitchKeyDown(B, b) ==
    LET currentState == GetOrFalse(B.switchStates, b)
        newState == ~currentState
        command == IF newState THEN "On" ELSE "Off"
        B1 == [B EXCEPT !.keyLog[b] =
                  Append(@, [verb |-> command, ok |-> FALSE])]
    IN  Exec(B1, b, "key", command, newState, 0)

\* DimmerAction.onKeyDown up to exec: toggles between 0 and 100.
DimmerKeyDown(B, b) ==
    LET currentState == GetOrFalse(B.dimmerStates, b)
        newValue == IF currentState THEN LevelMin ELSE LevelMax
    IN  Exec(B, b, "key", "level", FALSE, newValue)

\* BlindAction.onKeyDown that also resets the stored position.
BlindKeyDownStoring(B, b) ==
    Exec([B EXCEPT !.currentValues = MapSet(@, b, 0)], b, "key", "FullDown", FALSE, 0)

\* BlindAction.onKeyDown up to exec.
BlindKeyDown(B, b) == Exec(B, b, "key", "FullDown", FALSE, 0)

\* PulseAction.onKeyDown up to exec.
PulseKeyDown(B, b) == Exec(B, b, "key", "Pulse", FALSE, 0)

OnKeyDown(B, b, st) ==
    IF ~Complete(st) THEN ShowAlert(B, b)
    ELSE CASE actionKind[b] = "switch" -> SwitchKeyDown(B, b)
           [] actionKind[b] = "dimmer" -> DimmerKeyDown(B, b)
           [] actionKind[b] = "blind"  -> BlindKeyDown(B, b)
           [] actionKind[b] = "pulse"  -> PulseKeyDown(B, b)

\* const stepSize = Number(settings.stepSize) || <default>
StepOf(k, st) ==
    IF st.stepSize # 0 THEN st.stepSize
    ELSE IF k = "dimmer" THEN DimmerDefaultStep ELSE BlindDefaultStep

\* The dial target without the upper limit.
DialTargetNoUpper(current, ticks, stepSize) ==
    Max(LevelMin, current + (ticks * stepSize))

\* Math.max(0, Math.min(100, current + (ev.payload.ticks * stepSize)))
DialTarget(current, ticks, stepSize) ==
    Max(LevelMin, Min(LevelMax, current + (ticks * stepSize)))

\* onDialRotate of DimmerAction and BlindAction up to exec.
OnDialRotate(B, b, st, ticks) ==
    IF ~Complete(st) THEN B
    ELSE LET stepSize == StepOf(actionKind[b], st)
             current == GetOrZero(B.currentValues, b)
             newValue == DialTarget(current, ticks, stepSize)
             B1 == [B EXCEPT !.currentValues = MapSet(@, b, newValue)]
         IN  IF actionKind[b] = "dimmer"
             THEN Exec(B1, b, "dial", "level", FALSE, newValue)
             ELSE Exec([B1 EXCEPT !.feedback[b] = {newValue}],
                       b, "dial", "ManualPosition", FALSE, newValue)

\* The exec callback of SwitchAction.onKeyDown with every answered request
\* taken as a success.
SwitchAnsweredAny(B, r, outcome, st) ==
    LET B1 == [B EXCEPT !.keyLog[r.b][r.tag].ok = (outcome = "200")]
    IN  IF outcome = "error" THEN ShowAlert(B1, r.b)
        ELSE ShowOk(UpdateButtonState(
                 [B1 EXCEPT !.switchStates = MapSet(@, r.b, r.newState)],
                 r.b, r.newState, st), r.b)

\* The exec callback of SwitchAction.onKeyDown.
SwitchAnswered(B, r, outcome, st) ==
    LET B1 == [B EXCEPT !.keyLog[r.b][r.tag].ok = (outcome = "200")]
    IN  IF outcome = "error" THEN ShowAlert(B1, r.b)
        ELSE IF outcome = "200"
        THEN ShowOk(UpdateButtonState(
                 [B1 EXCEPT !.switchStates = MapSet(@, r.b, r.newState)],
                 r.b, r.newState, st), r.b)
        ELSE ShowAlert(B1, r.b)

\* The exec callbacks of DimmerAction with a key press that always leaves the
\* on/off flag on.
DimmerAnsweredFlagOn(B, r, outcome, st) ==
    IF r.op = "key"
    THEN IF outcome = "error" THEN ShowAlert(B, r.b)
         ELSE IF outcome = "200"
         THEN ShowOk([SetTitle([B EXCEPT !.currentValues = MapSet(@, r.b, r.newValue),
                                         !.dimmerStates = MapSet(@, r.b, TRUE)],
                               r.b, NameOf(r.b, st), "%", r.newValue)
                         EXCEPT !.indicator[r.b] = IF r.newValue > 0 THEN 1 ELSE 0], r.b)
         ELSE ShowAlert(B, r.b)
    ELSE IF outcome = "200"
         THEN SetTitle([B EXCEPT !.dimmerStates = MapSet(@, r.b, r.newValue > 0)],
                       r.b, NameOf(r.b, st), "%", r.newValue)
         ELSE B

\* The exec callbacks of DimmerAction.onKeyDown and onDialRotate.
DimmerAnswered(B, r, outcome, st) ==
    IF r.op = "key"
    THEN IF outcome = "error" THEN ShowAlert(B, r.b)
         ELSE IF outcome = "200"
         THEN ShowOk([SetTitle([B EXCEPT !.currentValues = MapSet(@, r.b, r.newValue),
                                         !.dimmerStates = MapSet(@, r.b, r.newValue > 0)],
                               r.b, NameOf(r.b, st), "%", r.newValue)
                         EXCEPT !.indicator[r.b] = IF r.newValue > 0 THEN 1 ELSE 0], r.b)
         ELSE ShowAlert(B, r.b)
    ELSE IF outcome = "200"
         THEN SetTitle([B EXCEPT !.dimmerStates = MapSet(@, r.b, r.newValue > 0)],
                       r.b, NameOf(r.b, st), "%", r.newValue)
         ELSE B

\* The exec callbacks of BlindAction.onKeyDown and onDialRotate.
BlindAnswered(B, r, outcome) ==
    IF r.op = "key"
    THEN IF outcome = "200" THEN ShowOk(B, r.b) ELSE ShowAlert(B, r.b)
    ELSE IF outcome = "200" THEN [B EXCEPT !.feedback[r.b] = {r.newValue}] ELSE B

\* The exec callback of PulseAction.onKeyDown.
PulseAnswered(B, r, outcome) ==
    IF outcome = "200" THEN ShowOk(B, r.b) ELSE ShowAlert(B, r.b)

Answered(B, r, outcome, st) ==
    LET ages == B.fetchAge[r.b]
        B1 == [B EXCEPT !.cmdInflight = @ \ {r},
                        !.fetchAge[r.b] =
                            [i \in 1..Len(ages) |->
                                [after |-> ages[i].after \ {r},
                                 stale |-> ages[i].stale
                                           \/ (outcome = "200" /\ r \in ages[i].after)]]]
    IN  CASE actionKind[r.b] = "switch" -> SwitchAnswered(B1, r, outcome, st)
          [] actionKind[r.b] = "dimmer" -> DimmerAnswered(B1, r, outcome, st)
          [] actionKind[r.b] = "blind"  -> BlindAnswered(B1, r, outcome)
          [] actionKind[r.b] = "pulse"  -> PulseAnswered(B1, r, outcome)

\* The answers a fetch of the catalog may get, by what the class reads of them.
BodiesFor(k) ==
    IF k = "switch"
    THEN { body \in FetchBodies : body.value = {} /\ body.position = {} }
    ELSE { body \in FetchBodies : body.active = 0 }

\* The buttons with a poll interval running: the stored ones and those whose
\* handle was overwritten (leakedTimers; nothing can clear them any more).
Polling == pollingIntervals \cup leakedTimers

\* Fetches of button b in flight or about to be started by a suspended handler.
Pending(b) ==
    fetchInflight[b]
    + Cardinality({ i \in DOMAIN susp : susp[i].b = b /\ susp[i].st.uuid })

\* No handler is suspended: timers and exec callbacks run only then.
Quiet == susp = <<>>

\* lastEv keeps the input of the last step where a property needs it: the body
\* of a fetch answer, the outcome of a command, the ticks of a dial rotation
\* and the level it read.
Other == [ev |-> "other"]
Note(B, e) == [B EXCEPT !.lastEv = e]

BtnStart(kept) ==
    /\ SesIdle
    /\ DecIdle
    /\ SrvIdle
    /\ MgrIdle
    /\ actionKind \in [Buttons -> Kinds]
    /\ shown = [b \in Buttons |-> FALSE]
    /\ settings \in [Buttons -> { st \in InitialSettings : st.stepSize = 0 }]
    /\ susp = <<>>
    /\ switchStates = EmptyMap
    /\ currentValues = EmptyMap
    /\ dimmerStates = EmptyMap
    /\ pollingIntervals = {}
    /\ leakedTimers = {}
    /\ fetchInflight = [b \in Buttons |-> 0]
    /\ fetchAge = [b \in Buttons |-> <<>>]
    /\ ageKept = kept
    /\ cmdInflight = {}
    /\ title = [b \in Buttons |-> NoTitle]
    /\ indicator = [b \in Buttons |-> 0]
    /\ feedback = [b \in Buttons |-> {}]
    /\ lastEv = [ev |-> "other"]
    /\ flash = "none"
    /\ keyLog = [b \in Buttons |-> <<>>]

BtnInit == BtnStart(FALSE)

\* willAppear delivered: onWillAppear runs to its first await.
WillAppear(b) ==
    /\ ~shown[b]
    /\ Len(susp) < MaxSusp
    /\ Pending(b) < MaxFetch
    /\ BtnCommit(Note(OnWillAppear([BtnCur EXCEPT !.shown[b] = TRUE], b, settings[b]),
                      Other))
    /\ UNCHANGED <<decVars, sesVars, srvVars, mgrVars>>

\* The oldest suspended onWillAppear continues after its await.
AppearResume ==
    /\ susp # <<>>
    /\ LET c == Head(susp)
       IN  BtnCommit(Note(OnWillAppearResume([BtnCur EXCEPT !.susp = Tail(@)], c.b, c.st),
                          Other))
    /\ UNCHANGED <<decVars, sesVars, srvVars, mgrVars>>

\* willDisappear delivered.
WillDisappear(b) ==
    /\ shown[b]
    /\ BtnCommit(Note(OnWillDisappear([BtnCur EXCEPT !.shown[b] = FALSE], b),
                      Other))
    /\ UNCHANGED <<decVars, sesVars, srvVars, mgrVars>>

\* didReceiveSettings delivered with new settings st.
DidReceiveSettings(b, st) ==
    /\ shown[b]
    /\ st \in NewSettings(b)
    /\ (Complete(st) /\ actionKind[b] # "pulse") => Pending(b) < MaxFetch
    /\ BtnCommit(Note(OnDidReceiveSettings([BtnCur EXCEPT !.settings[b] = st], b, st),
                      Other))
    /\ UNCHANGED <<decVars, sesVars, srvVars, mgrVars>>

\* A poll interval of button b fires.
Tick(b) ==
    /\ Quiet
    /\ b \in Polling
    /\ fetchInflight[b] < MaxFetch
    /\ BtnCommit(Note(FetchCurrentState(BtnCur, b), [ev |-> "tick", b |-> b]))
    /\ UNCHANGED <<decVars, sesVars, srvVars, mgrVars>>

\* The sequence without its i-th element.
Without(seq, i) == SubSeq(seq, 1, i - 1) \o SubSeq(seq, i + 1, Len(seq))

\* A catalog fetch of button b, any of those in flight, is answered with body.
FetchResp(b, body) ==
    /\ Quiet
    /\ fetchInflight[b] > 0
    /\ body \in BodiesFor(actionKind[b])
    /\ \E i \in IF ageKept THEN 1..Len(fetchAge[b]) ELSE {0} :
          BtnCommit(Note(Fetched([BtnCur EXCEPT !.fetchInflight[b] = @ - 1,
                                                !.fetchAge[b] = Without(@, i)],
                                 b, body, settings[b]),
                         [ev |-> "fetchResp", b |-> b, body |-> body,
                          stale |-> ageKept /\ fetchAge[b][i].stale]))
    /\ UNCHANGED <<decVars, sesVars, srvVars, mgrVars>>

\* keyDown delivered.
KeyDown(b) ==
    /\ shown[b]
    /\ Complete(settings[b]) => Cardinality(cmdInflight) < MaxRequests
    /\ (Complete(settings[b]) /\ actionKind[b] = "switch") => Len(keyLog[b]) < MaxRequests
    /\ BtnCommit(Note(OnKeyDown(BtnCur, b, settings[b]), [ev |-> "keyDown", b |-> b]))
    /\ UNCHANGED <<decVars, sesVars, srvVars, mgrVars>>

\* dialRotate delivered with the given number of ticks.
DialRotate(b, ticks) ==
    /\ shown[b]
    /\ actionKind[b] \in {"dimmer", "blind"}
    /\ Complete(settings[b]) => Cardinality(cmdInflight) < MaxRequests
    /\ BtnCommit(Note(OnDialRotate(BtnCur, b, settings[b], ticks),
                      [ev |-> "dialRotate", b |-> b, ticks |-> ticks,
                       current |-> GetOrZero(currentValues, b)]))
    /\ UNCHANGED <<decVars, sesVars, srvVars, mgrVars>>

\* The command request r ends with outcome.
CmdResp(r, outcome) ==
    /\ Quiet
    /\ r \in cmdInflight
    /\ BtnCommit(Note(Answered(BtnCur, r, outcome, settings[r.b]),
                      [ev |-> "cmdResp", b |-> r.b, outcome |-> outcome]))
    /\ UNCHANGED <<decVars, sesVars, srvVars, mgrVars>>

\* Ticks of a dial rotation in the button model, large enough to reach both limits.
ButtonTicks == {-20, 20}

BtnNext ==
    \/ \E b \in Buttons : WillAppear(b)
    \/ AppearResume
    \/ \E b \in Buttons : WillDisappear(b)
    \/ \E b \in Buttons : \E st \in InitialSettings : DidReceiveSettings(b, st)
    \/ \E b \in Buttons : Tick(b)
    \/ \E b \in Buttons : \E body \in FetchBodies : FetchResp(b, body)
    \/ \E b \in Buttons : KeyDown(b)
    \/ \E b \in Buttons : \E ticks \in ButtonTicks : DialRotate(b, ticks)
    \/ \E r \in cmdInflight : \E outcome \in CmdOutcomes : CmdResp(r, outcome)

SpecButton == BtnInit /\ [][BtnNext]_vars

\* The switch alone: SwitchAction has no dial handler.
SwitchInit == BtnInit /\ actionKind = [b \in Buttons |-> "switch"]

SwitchNext ==
    \/ \E b \in Buttons : WillAppear(b)
    \/ AppearResume
    \/ \E b \in Buttons : WillDisappear(b)
    \/ \E b \in Buttons : \E st \in InitialSettings : DidReceiveSettings(b, st)
    \/ \E b \in Buttons : Tick(b)
    \/ \E b \in Buttons : \E body \in FetchBodies : FetchResp(b, body)
    \/ \E b \in Buttons : KeyDown(b)
    \/ \E r \in cmdInflight : \E outcome \in CmdOutcomes : CmdResp(r, outcome)

SpecSwitch == SwitchInit /\ [][SwitchNext]_vars

\* The dimmer alone, with its key and its dial.
DimmerInit == BtnInit /\ actionKind = [b \in Buttons |-> "dimmer"]

\* The settings of a dimmer stay as they were when it was placed.
DimmerNext ==
    \/ \E b \in Buttons : WillAppear(b)
    \/ AppearResume
    \/ \E b \in Buttons : WillDisappear(b)
    \/ \E b \in Buttons : Tick(b)
    \/ \E b \in Buttons : \E body \in FetchBodies : FetchResp(b, body)
    \/ \E b \in Buttons : KeyDown(b)
    \/ \E b \in Buttons : \E ticks \in ButtonTicks : DialRotate(b, ticks)
    \/ \E r \in cmdInflight : \E outcome \in CmdOutcomes : CmdResp(r, outcome)

SpecDimmer == DimmerInit /\ [][DimmerNext]_vars

\* The blind and the pulse button, with settings that stay as placed.
KeyInit == BtnInit /\ actionKind \in [Buttons -> {"blind", "pulse"}]

SpecKey == KeyInit /\ [][DimmerNext]_vars

\* Every class, placed with any settings, those with nothing filled in included.
GuardSettings == { st \in AllSettings : st.stepSize = 0 }

GuardInit ==
    /\ SesIdle
    /\ DecIdle
    /\ SrvIdle
    /\ MgrIdle
    /\ actionKind \in [Buttons -> Kinds]
    /\ shown = [b \in Buttons |-> FALSE]
    /\ settings \in [Buttons -> GuardSettings]
    /\ susp = <<>>
    /\ switchStates = EmptyMap
    /\ currentValues = EmptyMap
    /\ dimmerStates = EmptyMap
    /\ pollingIntervals = {}
    /\ leakedTimers = {}
    /\ fetchInflight = [b \in Buttons |-> 0]
    /\ fetchAge = [b \in Buttons |-> <<>>]
    /\ ageKept = FALSE
    /\ cmdInflight = {}
    /\ title = [b \in Buttons |-> NoTitle]
    /\ indicator = [b \in Buttons |-> 0]
    /\ feedback = [b \in Buttons |-> {}]
    /\ lastEv = Other
    /\ flash = "none"
    /\ keyLog = [b \in Buttons |-> <<>>]

\* The handlers and the poll timer; the answers to fetches and commands are
\* taken as one kind each (a fetch fails, a command is answered with 200).
GuardNext ==
    \/ \E b \in Buttons : WillAppear(b)
    \/ AppearResume
    \/ \E b \in Buttons : WillDisappear(b)
    \/ \E b \in Buttons : \E st \in InitialSettings : DidReceiveSettings(b, st)
    \/ \E b \in Buttons : Tick(b)
    \/ \E b \in Buttons : FetchResp(b, FetchBody("error", 0, {}, {}))
    \/ \E b \in Buttons : KeyDown(b)
    \/ \E b \in Buttons : \E ticks \in ButtonTicks : DialRotate(b, ticks)
    \/ \E r \in cmdInflight : CmdResp(r, "200")

SpecGuard == GuardInit /\ [][GuardNext]_vars

\* Every class with its polls, keys and dial, with settings that stay as placed.
SpecPoll == BtnInit /\ [][DimmerNext]_vars

\* Switches and dimmers with the age of every fetch in flight kept.
StaleInit == BtnStart(TRUE) /\ actionKind \in [Buttons -> {"switch", "dimmer"}]

SpecStale == StaleInit /\ [][DimmerNext]_vars

\* The dial computation on its own: a visible, fully configured dimmer or blind
\* whose level a poll has set, turned by any number of ticks.
DialLevels == {0, 1, 50, 95, 100}
DialTicks == {-1000, -3, -1, 1, 2, 1000}

DialInit ==
    /\ SesIdle
    /\ DecIdle
    /\ SrvIdle
    /\ MgrIdle
    /\ actionKind \in [Buttons -> {"dimmer", "blind"}]
    /\ shown = [b \in Buttons |-> TRUE]
    /\ settings \in [Buttons -> { st \in AllSettings : Complete(st) /\ st.named }]
    /\ susp = <<>>
    /\ switchStates = EmptyMap
    /\ currentValues \in [Buttons -> DialLevels]
    /\ dimmerStates =
          [b \in { x \in Buttons : actionKind[x] = "dimmer" } |-> currentValues[b] > 0]
    /\ pollingIntervals = Buttons
    /\ leakedTimers = {}
    /\ fetchInflight = [b \in Buttons |-> 0]
    /\ fetchAge = [b \in Buttons |-> <<>>]
    /\ ageKept = FALSE
    /\ cmdInflight = {}
    /\ title = [b \in Buttons |->
                  [name |-> "name", text |-> "%", pct |-> currentValues[b]]]
    /\ indicator = [b \in Buttons |->
                      IF actionKind[b] = "dimmer" /\ currentValues[b] > 0 THEN 1 ELSE 0]
    /\ feedback = [b \in Buttons |->
                     IF actionKind[b] = "blind" THEN {currentValues[b]} ELSE {}]
    /\ lastEv = Other
    /\ flash = "none"
    /\ keyLog = [b \in Buttons |-> <<>>]

\* Rotations only: the requests stay in flight, so a behaviour is a sequence
\* of at most MaxRequests rotations from the level drawn in DialInit.
DialNext == \E b \in Buttons : \E ticks \in DialTicks : DialRotate(b, ticks)

SpecDial == DialInit /\ [][DialNext]_vars

-----------------------------------------------------------------------------
(***************************************************************************)
(* The companion server: POST /api/get-controls and its cache              *)
(***************************************************************************)

\* Strings the server formats or compares are sequences of characters.
Colon == <<":">>

\* Request fields as the browser form sends them.  A host or username may be
\* any text, a colon included (an IPv6 literal is a host with colons); <<>>
\* is a field left empty.
Hosts == { <<"a", ":", "b">>, <<"a">>, <<>> }
Users == { <<"v">>, <<"b", ":", "v">> }
Passwords == { <<"p">>, <<"x">> }
Requests == [host : Hosts, user : Users, pw : Passwords]

\* const key = `${host}:${username}`
Key(host, username) == host \o Colon \o username

\* The credentials in the Authorization header, `${username}:${password}`
\* (base64 is one-to-one and left out).
BasicAuth(username, password) == username \o Colon \o password

\* The controller reads the user-id up to the first colon of the credentials
\* and the password after it.
FirstColon(cred) == CHOOSE i \in 1..Len(cred) :
                        cred[i] = ":" /\ \A j \in 1..(i - 1) : cred[j] # ":"
UserId(cred) == SubSeq(cred, 1, FirstColon(cred) - 1)
Secret(cred) == SubSeq(cred, FirstColon(cred) + 1, Len(cred))

\* The controller, reachable as host "a:b", and its one account; no other
\* host answers.
ControllerHost == <<"a", ":", "b">>
Accounts == { [user |-> <<"v">>, pw |-> <<"p">>] }
Accepted(req) ==
    /\ req.host = ControllerHost
    /\ [user |-> UserId(BasicAuth(req.user, req.pw)),
        pw |-> Secret(BasicAuth(req.user, req.pw))] \in Accounts

\* How fetchLoxoneStructureHTTP may settle for a request: resolved with the
\* parsed catalog ("ok"), or rejected (status 401, another status, a body that
\* is no JSON, a connection error or the 10 s timeout).
FetchOutcomes(req) ==
    IF req.host # ControllerHost THEN {"error"}
    ELSE IF Accepted(req) THEN {"ok", "badJson", "error"}
    ELSE {"401"}

\* Date.now() - cached.timestamp < 60000
CacheTtlMs == 60000
Fresh(entry, now) == now - entry.timestamp < CacheTtlMs

MaxClockMs == 120000   \* the clock stops advancing here
MaxCatalog == 1        \* times the controller's catalog changes
MaxSrvFetches == 2     \* fetches of the server awaiting the controller
ClockSteps == {29999, 30000}

Reply(from, req, structure) ==
    [from |-> from, host |-> req.host, user |-> req.user, pw |-> req.pw,
     structure |-> structure]

\* POST /api/get-controls up to its response or to the await of the fetch.
GetControls(req) ==
    /\ req \in Requests
    /\ IF req.host = <<>>
       THEN /\ srvReply' = Reply("400", req, 0)
            /\ UNCHANGED <<connections, srvFetches>>
       ELSE LET key == Key(req.host, req.user)
            IN  IF MapHas(connections, key) /\ Fresh(connections[key], clock)
                THEN /\ srvReply' = Reply("cache", req, connections[key].structure)
                     /\ UNCHANGED <<connections, srvFetches>>
                ELSE /\ Len(srvFetches) < MaxSrvFetches
                     /\ srvFetches' = Append(srvFetches, req)
                     /\ srvReply' = NoReply
                     /\ UNCHANGED connections
    /\ UNCHANGED <<clock, catalog, stored, decVars, sesVars, btnVars, mgrVars, orgVars>>

\* The fetch of the i-th waiting get-controls settles; the handler continues
\* after its await: connections.set and the response, or the catch branch.
FetchSettles(i, outcome) ==
    /\ i \in 1..Len(srvFetches)
    /\ outcome \in FetchOutcomes(srvFetches[i])
    /\ LET req == srvFetches[i]
           key == Key(req.host, req.user)
       IN  /\ srvFetches' = [j \in 1..(Len(srvFetches) - 1) |->
                                IF j < i THEN srvFetches[j] ELSE srvFetches[j + 1]]
           /\ IF outcome = "ok"
              THEN /\ connections' = MapSet(connections, key,
                                            [structure |-> catalog, timestamp |-> clock])
                   /\ stored' = MapSet(stored, <<req.host, req.user>>, clock)
                   /\ srvReply' = Reply("controller", req, catalog)
              ELSE /\ srvReply' = Reply("500", req, 0)
                   /\ UNCHANGED <<connections, stored>>
    /\ UNCHANGED <<clock, catalog, decVars, sesVars, btnVars, mgrVars, orgVars>>

\* Time passes.
Advance(d) ==
    /\ clock + d <= MaxClockMs
    /\ clock' = clock + d
    /\ srvReply' = NoReply
    /\ UNCHANGED <<connections, catalog, srvFetches, stored, decVars, sesVars, btnVars, mgrVars, orgVars>>

\* The controller's configuration is changed: it serves a new catalog.
CatalogChanges ==
    /\ catalog < MaxCatalog
    /\ catalog' = catalog + 1
    /\ srvReply' = NoReply
    /\ UNCHANGED <<clock, connections, srvFetches, stored, decVars, sesVars, btnVars, mgrVars, orgVars>>

SrvInit == SesIdle /\ DecIdle /\ BtnIdle /\ SrvIdle /\ MgrIdle

SrvNext ==
    \/ \E req \in Requests : GetControls(req)
    \/ \E i \in 1..MaxSrvFetches : \E outcome \in {"ok", "badJson", "error", "401"} :
           FetchSettles(i, outcome)
    \/ \E d \in ClockSteps : Advance(d)
    \/ CatalogChanges

SpecServer == SrvInit /\ [][SrvNext]_vars

-----------------------------------------------------------------------------
(***************************************************************************)
(* The companion server: organizeControls                                  *)
(***************************************************************************)

\* A catalog as organizeControls reads it.  at: the controls are under
\* "controls", under "globalStates", or under neither; each control has a type
\* ("" for none), a room and a category reference ("" for none).  The catalog
\* has one room, r1 "Kitchen", and one category, c1 "Lights".
MaxControls == 2
CatalogTypes == {"Switch", "Jalousie", "Webpage", ""}
CatalogControls == [type : CatalogTypes, room : {"", "r1"}, cat : {"", "c1"}]
Structures ==
    { [at |-> at, controls |-> cs] :
        at \in {"controls", "globalStates", "none"},
        cs \in UNION { [1..n -> CatalogControls] : n \in 0..MaxControls } }

RoomName(ref) == IF ref = "r1" THEN "Kitchen" ELSE ""
CategoryName(ref) == IF ref = "c1" THEN "Lights" ELSE ""

\* One element of the returned list.
Listed(i, control) ==
    [uuid |-> i,
     type |-> IF control.type = "" THEN "Unknown" ELSE control.type,
     room |-> RoomName(control.room),
     category |-> CategoryName(control.cat)]

\* The elements of list whose field f is k, in order.
Group(list, field, k) == SelectSeq(list, LAMBDA c : c[field] = k)
Range(f) == { f[i] : i \in DOMAIN f }

\* organizeControls(structureData)
OrganizeControls(sd) ==
    IF sd.at = "none" THEN NoControls
    ELSE LET all == [i \in 1..Len(sd.controls) |-> Listed(i, sd.controls[i])]
         IN  [byRoom |-> [k \in { c.room : c \in Range(all) } \ {""} |->
                             Group(all, "room", k)],
              byCategory |-> [k \in { c.category : c \in Range(all) } \ {""} |->
                             Group(all, "category", k)],
              byType |-> [k \in { c.type : c \in Range(all) } |-> Group(all, "type", k)],
              all |-> all]

OrgInit ==
    /\ SesIdle /\ DecIdle /\ BtnIdle /\ MgrIdle
    /\ clock = 0
    /\ connections = EmptyMap
    /\ catalog = 0
    /\ srvFetches = <<>>
    /\ srvReply = NoReply
    /\ stored = EmptyMap
    /\ structureData \in Structures
    /\ organized = NoControls
    /\ orgPc = "call"

\* get-controls calls organizeControls on the catalog it is about to return.
Organize ==
    /\ orgPc = "call"
    /\ organized' = OrganizeControls(structureData)
    /\ orgPc' = "done"
    /\ UNCHANGED <<structureData, clock, connections, catalog, srvFetches, srvReply,
                   stored, decVars, sesVars, btnVars, mgrVars>>

SpecOrganize == OrgInit /\ [][Organize]_vars

-----------------------------------------------------------------------------
(***************************************************************************)
(* LoxoneConnectionManager.getClient                                       *)
(***************************************************************************)

MaxClients == 3   \* LoxoneClient objects constructed

\* The host and username of the settings of the buttons that call getClient.
Callers == [host : Hosts \ {<<>>}, user : Users]

\* getClient(host, username, password) up to its return or to the await of
\* client.connect().
GetClient(who) ==
    /\ who \in Callers
    /\ LET key == Key(who.host, who.user)
       IN  IF MapHas(clients, key)
           THEN /\ handed' = clients[key]
                /\ UNCHANGED <<clients, connecting, created>>
           ELSE /\ Len(created) < MaxClients
                /\ created' = Append(created, who)
                /\ connecting' = connecting \cup {Len(created) + 1}
                /\ handed' = 0
                /\ UNCHANGED clients
    /\ UNCHANGED <<decVars, sesVars, btnVars, srvVars>>

\* connect() of client c resolves (its handshake completed): getClient stores
\* the client under its key and returns it.
ConnectResolves(c) ==
    /\ c \in connecting
    /\ clients' = MapSet(clients, Key(created[c].host, created[c].user), c)
    /\ connecting' = connecting \ {c}
    /\ handed' = c
    /\ UNCHANGED <<created, decVars, sesVars, btnVars, srvVars>>

\* connect() of client c rejects (a handshake request failed): getClient throws
\* and stores nothing.  A connect() whose socket never opens settles never: its
\* call stays in connecting.
ConnectRejects(c) ==
    /\ c \in connecting
    /\ connecting' = connecting \ {c}
    /\ handed' = 0
    /\ UNCHANGED <<clients, created, decVars, sesVars, btnVars, srvVars>>

MgrInit == SesIdle /\ DecIdle /\ BtnIdle /\ SrvIdle /\ MgrIdle

MgrNext ==
    \/ \E who \in Callers : GetClient(who)
    \/ \E c \in 1..MaxClients : ConnectResolves(c)
    \/ \E c \in 1..MaxClients : ConnectRejects(c)

SpecManager == MgrInit /\ [][MgrNext]_vars

-----------------------------------------------------------------------------
(***************************************************************************)
(* Properties of the buttons                                               *)
(***************************************************************************)

\* C1: once a button's hide event has been handled, no catalog fetch is started
\* for that button until it appears again: in no step that begins and ends with
\* the button hidden does the number of its fetches in flight grow.
C1_NoFetchWhileHidden ==
    [][\A b \in Buttons :
          (~shown[b] /\ ~shown'[b]) => fetchInflight'[b] <= fetchInflight[b]]_vars

\* C2: of two successive presses of a configured switch, the first starting from
\* remembered state off (so issuing 'On') and answered with code 200, the second
\* issues 'Off', whenever the answer and whatever poll responses arrive.
C2_OnThenOff ==
    \A b \in Buttons :
        \A i \in 1..(Len(keyLog[b]) - 1) :
            (keyLog[b][i].verb = "On" /\ keyLog[b][i].ok) => keyLog[b][i + 1].verb = "Off"

\* C3: when the answer to a switch toggle request is processed, the remembered
\* boolean becomes the request's target state if the code is 200; otherwise (another
\* code, or the transport failed) the remembered boolean and the label stay
\* exactly as they were.
C3_ToggleResponse ==
    [][\A r \in cmdInflight \ cmdInflight' :
          (actionKind[r.b] = "switch" /\ r.op = "key" /\ lastEv'.ev = "cmdResp") =>
              IF lastEv'.outcome = "200"
              THEN MapHas(switchStates', r.b) /\ switchStates'[r.b] = r.newState
              ELSE switchStates' = switchStates /\ title' = title]_vars

\* A press from off was answered with code 500 and the switch is still off.
C3_Witness ==
    /\ lastEv.ev = "cmdResp"
    /\ lastEv.outcome = "500"
    /\ \E b \in Buttons :
          /\ actionKind[b] = "switch"
          /\ Len(keyLog[b]) = 1
          /\ keyLog[b][1].verb = "On"
          /\ cmdInflight = {}
          /\ MapHas(switchStates, b)
          /\ switchStates[b] = FALSE
          /\ title[b].text = "OFF"

Clamp0To100(x) == IF x < 0 THEN 0 ELSE IF x > 100 THEN 100 ELSE x

\* C4: the target level of a dimmer-dial or blind-dial rotation, sent to the
\* controller and stored as the button's level, is current + ticks*stepSize
\* clamped into 0..100, stepSize being the step the handler uses (the configured
\* number, or the class default when that is absent or zero).
C4_DialClamped ==
    [][\A r \in cmdInflight' \ cmdInflight :
          (r.op = "dial" /\ lastEv'.ev = "dialRotate") =>
              LET stepSize == IF settings[r.b].stepSize # 0 THEN settings[r.b].stepSize
                              ELSE IF actionKind[r.b] = "dimmer" THEN 5 ELSE 10
                  current == IF r.b \in DOMAIN currentValues THEN currentValues[r.b] ELSE 0
              IN  /\ r.newValue = Clamp0To100(current + lastEv'.ticks * stepSize)
                  /\ currentValues'[r.b] = r.newValue]_vars

\* The example of the claim: level 95, one tick, step 10 gives 100, sent and stored.
C4_Witness ==
    /\ lastEv.ev = "dialRotate"
    /\ lastEv.ticks = 1
    /\ lastEv.current = 95
    /\ \E r \in cmdInflight :
          /\ r.op = "dial"
          /\ r.b = lastEv.b
          /\ r.newValue = 100
          /\ StepOf(actionKind[r.b], settings[r.b]) = 10
          /\ currentValues[r.b] = 100

\* C8: when a poll response for a visible switch carries the switch's states with
\* active = 1, the remembered state becomes true, the label's state part is ON and
\* the indicator state is 1; with active = 0 they become false, OFF and 0.
C8_PollSetsState ==
    [][\A b \in Buttons :
          ( /\ actionKind[b] = "switch"
            /\ shown[b]
            /\ fetchInflight'[b] < fetchInflight[b]
            /\ lastEv'.ev = "fetchResp"
            /\ lastEv'.body.status = "states" ) =>
              /\ lastEv'.body.active = 1 =>
                    /\ MapHas(switchStates', b) /\ switchStates'[b] = TRUE
                    /\ title'[b].text = "ON"
                    /\ indicator'[b] = 1
              /\ lastEv'.body.active = 0 =>
                    /\ MapHas(switchStates', b) /\ switchStates'[b] = FALSE
                    /\ title'[b].text = "OFF"
                    /\ indicator'[b] = 0]_vars

\* A poll of a visible switch that was off has just reported active = 1.
C8_Witness ==
    /\ lastEv.ev = "fetchResp"
    /\ lastEv.body.status = "states"
    /\ lastEv.body.active = 1
    /\ actionKind[lastEv.b] = "switch"
    /\ shown[lastEv.b]
    /\ MapHas(switchStates, lastEv.b)
    /\ switchStates[lastEv.b] = TRUE
    /\ title[lastEv.b].text = "ON"
    /\ indicator[lastEv.b] = 1

-----------------------------------------------------------------------------
(***************************************************************************)
(* Properties of the realtime session                                      *)
(***************************************************************************)

IsPrefix(a, b) == Len(a) <= Len(b) /\ a = SubSeq(b, 1, Len(a))


\* What a complete run of the open handler does, in order.
FullHandshake ==
    <<"tx_auth", "rx_auth", "tx_catalog", "rx_catalog", "tx_enable", "rx_enable",
      "keepalive", "connected">>

HandshakeFails == {"fail_auth", "fail_catalog", "fail_enable"}

\* A run of the open handler that follows the order of FullHandshake and, if a
\* request failed, stopped there: the failure is the last entry and it comes
\* where the failed request was due (fail_x instead of tx_x) or outstanding
\* (fail_x right after tx_x).
OrderlyHandshake(l) ==
    \/ IsPrefix(l, FullHandshake)
    \/ /\ l # <<>>
       /\ l[Len(l)] \in HandshakeFails
       /\ IsPrefix(SubSeq(l, 1, Len(l) - 1), FullHandshake)
       /\ \E step \in HandshakeSteps :
             /\ l[Len(l)] = "fail_" \o step
             /\ \/ Len(l) >= 2 /\ l[Len(l) - 1] = "tx_" \o step
                \/ IsPrefix(SubSeq(l, 1, Len(l) - 1) \o <<"tx_" \o step>>, FullHandshake)

\* C9: after the transport opens the session sends authenticate, fetch-catalog
\* and enable-status-updates in that order, each only after the previous one was
\* answered; the keep-alive timer is started and "connected" is emitted only
\* after all three were answered, and after a failed step nothing later is done.
C9_HandshakeInOrder ==
    /\ \A g \in 1..Len(hsLog) : OrderlyHandshake(hsLog[g])
    /\ \A i \in 1..Len(timers) :
          /\ (timers[i].kind = "cmd" /\ timers[i].owner = "catalog")
                => "rx_auth" \in Range(hsLog[timers[i].sock])
          /\ (timers[i].kind = "cmd" /\ timers[i].owner = "enable")
                => "rx_catalog" \in Range(hsLog[timers[i].sock])
    /\ (keepAliveTimer \/ kaLeaked > 0 \/ lastEmit = "connected")
          => \E g \in 1..Len(hsLog) : "rx_enable" \in Range(hsLog[g])

\* A session whose handshake ran to the end and whose keep-alive timer runs.
C9_Witness ==
    \E g \in 1..Len(hsLog) :
        hsLog[g] = FullHandshake /\ keepAliveTimer /\ lastEmit = "connected"

\* C10 as stated: the catalog request follows the authenticate request with no
\* inbound message in between.
C10_CatalogWithoutWaiting ==
    \A g \in 1..Len(hsLog) : \A i \in 1..Len(hsLog[g]) :
        hsLog[g][i] = "tx_catalog" => (i > 1 /\ hsLog[g][i - 1] = "tx_auth")

\* C10 (amended): the catalog request is sent in the handling of the first
\* inbound message that arrives after the authenticate request, and never before
\* it; if that message finds the connection no longer open the step fails instead.
C10_CatalogOnFirstMessage ==
    \A g \in 1..Len(hsLog) : \A i \in 1..Len(hsLog[g]) :
        /\ hsLog[g][i] = "tx_catalog" => (i > 1 /\ hsLog[g][i - 1] = "rx_auth")
        /\ hsLog[g][i] = "rx_auth"
              => /\ i > 1 /\ hsLog[g][i - 1] = "tx_auth"
                 /\ Len(hsLog[g]) > i
                 /\ hsLog[g][i + 1] \in {"tx_catalog", "fail_catalog"}
        /\ (hsLog[g] = <<"tx_auth">> /\ rs[g] = "OPEN")
              => \E k \in 1..Len(timers) :
                    /\ timers[k].kind = "cmd" /\ timers[k].owner = "auth"
                    /\ timers[k].sock = g /\ timers[k].state = "pending"

\* The catalog request has just gone out on the first message after authenticate.
C10_Witness ==
    \E g \in 1..Len(hsLog) :
        hsLog[g] = <<"tx_auth", "rx_auth", "tx_catalog">> /\ lastSend = "catalog"

\* The step appends e to the handshake log of socket g.
Logged(g, e) ==
    /\ g <= Len(hsLog)
    /\ Len(hsLog'[g]) > Len(hsLog[g])
    /\ hsLog'[g][Len(hsLog[g]) + 1] = e

\* C11: the content of the answer to the authenticate request never influences
\* the session: in every step in which that answer arrives the session marks
\* itself authenticated and goes on to the catalog request, and every field of the
\* session is what it would be had the answer been of any other kind.
C11_AuthResponseIgnored ==
    [][\A g \in 1..Len(rs) :
          Logged(g, "rx_auth") =>
              /\ authenticated'
              /\ \E i \in 1..Len(hsLog'[g]) : hsLog'[g][i] \in {"tx_catalog", "fail_catalog"}
              /\ \A k \in MsgKinds :
                    LET T == ResolveAll(SesCur, g, k, 1)
                    IN  /\ T.ws = ws' /\ T.rs = rs'
                        /\ T.authenticated = authenticated'
                        /\ T.structureFile = structureFile'
                        /\ T.reconnectTimer = reconnectTimer'
                        /\ T.keepAliveTimer = keepAliveTimer'
                        /\ T.timers = timers'
                        /\ T.hsLog = hsLog'
                        /\ T.lastSend = lastSend']_vars

\* The authenticate request was answered by a frame that is not JSON, and the
\* session is authenticated and has sent the catalog request.
C11_Witness ==
    /\ lastRouted = "binary"
    /\ Len(hsLog) = 1
    /\ hsLog[1] = <<"tx_auth", "rx_auth", "tx_catalog">>
    /\ authenticated
    /\ lastSend = "catalog"

\* The close handler of some socket runs in the step.
CloseHandled == \E g \in 1..Len(rs) : rs[g] # "CLOSED" /\ rs'[g] = "CLOSED"

\* The error handler of some socket runs in the step (its emit of "error" on the
\* client finds no listener and throws).
ErrorHandled == uncaught' > uncaught

\* C12: on a transport close, and equally on a transport error, the session
\* clears its keep-alive timer, emits a disconnect notification and has a
\* reconnect attempt scheduled.
C12_CloseOrErrorReconnects ==
    [][(CloseHandled \/ ErrorHandled) =>
          (~keepAliveTimer' /\ lastEmit' = "disconnected" /\ reconnectTimer')]_vars

\* Socket g is the latest connect attempt and is down.
Down(g) == Len(rs) = g /\ rs[g] \in {"CLOSING", "CLOSED"}

\* disconnect() has been called since the latest connect attempt.
Dropped == rs # <<>> /\ ws = 0

\* C13: the session retries forever: after every disconnection a new connect
\* attempt is eventually made, however many attempts have failed before, unless
\* the session is told to disconnect (stated for every attempt but the last one
\* the model allows).
C13_RetriesForever ==
    \A g \in 1..(MaxConn - 1) : []((Down(g) /\ ~Dropped) => <>(Len(rs) > g \/ Dropped))

\* The requests sent and neither answered nor timed out.
Outstanding == { i \in 1..Len(timers) : timers[i].kind = "cmd" /\ timers[i].state = "pending" }

\* C14: at every moment at most one realtime request of the session is
\* outstanding, whatever sendControl calls and handshake steps are made.
C14_OneOutstanding == Cardinality(Outstanding) <= 1

\* The step is the 5000 ms timeout of the oldest request.
TimeoutStep == timers # <<>> /\ Head(timers).kind = "cmd" /\ timers' = Tail(timers)

\* The settlements of the step that resolve a request.
Resolutions == SelectSeq(lastSettle', LAMBDA x : x.result = "resolved")

\* The requests that go from pending to resolved in a step that fires no timeout.
NewlyResolved ==
    { i \in 1..Len(timers) :
        /\ timers[i].kind = "cmd" /\ timers[i].state = "pending"
        /\ i <= Len(timers') /\ timers'[i].state = "resolved" }

\* C15: a request that gets no inbound message within 5 seconds fails with the
\* error 'Command timeout', and every request settles exactly once: the timeout of
\* an answered request settles nothing, and a message settles only requests that
\* were still pending (never one that timed out).
C15_SettlesOnce ==
    [][/\ TimeoutStep =>
            IF Head(timers).state = "pending"
            THEN lastSettle' = <<[owner |-> Head(timers).owner, result |-> "Command timeout"]>>
            ELSE lastSettle' = <<>>
       /\ (~TimeoutStep /\ Len(timers') >= Len(timers)) =>
            Len(Resolutions) = Cardinality(NewlyResolved)]_vars

\* The authenticate request was answered and its timeout has fired since; the
\* catalog request got no message and has just failed with 'Command timeout'.
C15_Witness ==
    /\ Len(hsLog) = 1
    /\ hsLog[1] = <<"tx_auth", "rx_auth", "tx_catalog", "fail_catalog">>
    /\ timers = <<>>
    /\ lastSettle = <<[owner |-> "catalog", result |-> "Command timeout"]>>

\* The step sends the keep-alive token.
KeepAliveSent == lastSend' = "keepalive" /\ lastSend # "keepalive"

\* C16: a keep-alive token is sent only by the keep-alive timer of a session that
\* has reached Ready (the connection it goes out on has completed its handshake),
\* and only at a tick at which the connection is open; the tick raises nothing and
\* changes nothing else, and a tick at which the connection is not open sends
\* nothing.
C16_KeepAliveOnlyWhenOpen ==
    [][KeepAliveSent =>
          /\ keepAliveTimer \/ kaLeaked > 0
          /\ ws # 0 /\ rs[ws] = "OPEN"
          /\ \E i \in 1..Len(hsLog[ws]) : hsLog[ws][i] = "connected"
          /\ uncaught' = uncaught
          /\ <<ws, rs, authenticated, structureFile, reconnectTimer, keepAliveTimer,
                timers, hsLog, lastEmit>>' =
             <<ws, rs, authenticated, structureFile, reconnectTimer, keepAliveTimer,
               timers, hsLog, lastEmit>>]_vars

\* A Ready session whose open connection has just carried a keep-alive token.
C16_Witness ==
    /\ lastSend = "keepalive"
    /\ keepAliveTimer
    /\ ws # 0
    /\ rs[ws] = "OPEN"
    /\ \E i \in 1..Len(hsLog[ws]) : hsLog[ws][i] = "connected"

\* The settlements of control commands in the last step with the given result.
ControlSettled(result) ==
    { i \in 1..Len(lastSettle) :
        lastSettle[i].owner = "control" /\ lastSettle[i].result = result }

\* C17 as stated: a control command whose send the transport accepted is a
\* success whether or not any inbound message follows: it never ends in a timeout.
C17_SuccessOnAcceptedSend == ControlSettled("Command timeout") = {}

\* The step is a sendControl call whose send the transport accepted.
ControlAccepted ==
    /\ Len(timers') = Len(timers) + 1
    /\ timers'[Len(timers')].kind = "cmd"
    /\ timers'[Len(timers')].owner = "control"
    /\ lastSend' = "control"

\* C17, amended: acceptance of the send settles nothing; the command succeeds
\* only in a step in which an inbound message reaches its listener while it is
\* pending, and if its timeout comes first it fails with 'Command timeout'.
C17_SuccessOnNextMessage ==
    [][/\ ControlAccepted =>
            /\ lastSettle' = <<>>
            /\ timers'[Len(timers')].state = "pending"
       /\ (TimeoutStep /\ Head(timers).owner = "control" /\ Head(timers).state = "pending") =>
            ControlSettled("Command timeout")' = {1}
       /\ ~TimeoutStep =>
            Cardinality(ControlSettled("resolved")') =
            Cardinality({ i \in NewlyResolved : timers[i].owner = "control" /\ timers[i].listening })
      ]_vars

\* A control command whose send was accepted got no message and has timed out.
C17_Witness ==
    /\ lastSettle = <<[owner |-> "control", result |-> "Command timeout"]>>
    /\ lastSend = "control"
    /\ ws # 0
    /\ rs[ws] = "OPEN"

\* The step processes the answer to command request r.
AnswerOf(r) ==
    /\ r \in cmdInflight
    /\ r \notin cmdInflight'
    /\ lastEv'.ev = "cmdResp"
    /\ lastEv'.b = r.b

\* C18: when a command request of any button (key or dial) is answered with a
\* code other than 200 or ends with a transport error, the step shows the
\* failure indicator on the button and starts no further request.
C18_FailureShowsAlert ==
    [][\A r \in cmdInflight :
          (AnswerOf(r) /\ lastEv'.outcome # "200") =>
              /\ flash' = "alert"
              /\ cmdInflight' \subseteq cmdInflight]_vars

\* The part of C18 that the key handlers and the absence of a retry satisfy.
KeyFailureShowsAlert ==
    [][\A r \in cmdInflight :
          (AnswerOf(r) /\ lastEv'.outcome # "200") =>
              /\ r.op = "key" => flash' = "alert"
              /\ cmdInflight' = cmdInflight \ {r}]_vars

\* The step is the dial rotation that issues request r.
RotationOf(r) ==
    /\ r \notin cmdInflight
    /\ r \in cmdInflight'
    /\ r.op = "dial"

\* C19: the stored level of a dimmer or blind is not changed by the rotation
\* itself but by its answer: the rotation step leaves it as it was, an answer
\* with code 200 makes it the target of the request, and any other answer
\* leaves it as it was.
C19_LevelStoredOnSuccess ==
    [][/\ \A r \in cmdInflight' : RotationOf(r) => currentValues' = currentValues
       /\ \A r \in cmdInflight :
             (AnswerOf(r) /\ r.op = "dial") =>
                 IF lastEv'.outcome = "200"
                 THEN MapHas(currentValues', r.b) /\ currentValues'[r.b] = r.newValue
                 ELSE currentValues' = currentValues]_vars

\* The step is the key press of a dimmer that issues request r.
DimmerPressOf(r) ==
    /\ r \notin cmdInflight
    /\ r \in cmdInflight'
    /\ r.op = "key"
    /\ actionKind[r.b] = "dimmer"

\* C20: a dimmer key press requests level 0 when the remembered on/off flag is
\* on and level 100 when it is off or absent; when the request is answered with
\* code 200 the stored level is the requested level and the flag is
\* (level > 0); on any other answer the stored levels and flags are unchanged.
C20_DimmerKeyToggles ==
    [][/\ \A r \in cmdInflight' :
             DimmerPressOf(r) =>
                 r.newValue = IF MapHas(dimmerStates, r.b) /\ dimmerStates[r.b]
                              THEN 0 ELSE 100
       /\ \A r \in cmdInflight :
             (AnswerOf(r) /\ r.op = "key" /\ actionKind[r.b] = "dimmer") =>
                 IF lastEv'.outcome = "200"
                 THEN /\ MapHas(currentValues', r.b)
                      /\ currentValues'[r.b] = r.newValue
                      /\ MapHas(dimmerStates', r.b)
                      /\ dimmerStates'[r.b] = (r.newValue > 0)
                 ELSE /\ currentValues' = currentValues
                      /\ dimmerStates' = dimmerStates]_vars

\* A press of a dimmer that was on has been answered with 200: the level is 0
\* and the flag is off.
C20_Witness ==
    /\ lastEv.ev = "cmdResp"
    /\ lastEv.outcome = "200"
    /\ flash = "ok"
    /\ actionKind[lastEv.b] = "dimmer"
    /\ MapHas(currentValues, lastEv.b)
    /\ currentValues[lastEv.b] = 0
    /\ MapHas(dimmerStates, lastEv.b)
    /\ dimmerStates[lastEv.b] = FALSE

\* What the action classes remember per button.
Remembered == <<switchStates, currentValues, dimmerStates, pollingIntervals, leakedTimers>>

\* The step handles a key press of button b with complete settings.
PressOf(b) ==
    /\ lastEv'.ev = "keyDown"
    /\ lastEv'.b = b
    /\ Complete(settings[b])

\* The verb of the key request of a blind or pulse button.
FixedVerb(k) == IF k = "blind" THEN "FullDown" ELSE "Pulse"

HandlerSettings(b) ==
    IF susp # <<>> /\ susp' = Tail(susp) /\ Head(susp).b = b
    THEN Head(susp).st
    ELSE settings'[b]

\* The step starts a catalog fetch or a command request for button b.
Outbound(b) ==
    \/ fetchInflight'[b] > fetchInflight[b]
    \/ \E r \in cmdInflight' \ cmdInflight : r.b = b

\* C22: a handler (appear, settings received, key press, dial rotation) whose
\* settings lack the address, username or secret, or the target identifier,
\* starts no request; an appear without address, username or secret shows
\* 'Configure' and creates no per-button state and no timer.
C22_NoRequestUnconfigured ==
    [][\A b \in Buttons :
          /\ (lastEv'.ev # "tick" /\ ~Complete(HandlerSettings(b))) => ~Outbound(b)
          /\ (~shown[b] /\ shown'[b] /\ ~Configured(settings[b])) =>
                /\ title'[b] = [name |-> "", text |-> "Configure", pct |-> 0]
                /\ Remembered' = Remembered
                /\ susp' = susp]_vars

\* A button placed without credentials has appeared, shows 'Configure', and its
\* key has been pressed: nothing is stored and nothing is in flight.
C22_Witness ==
    \E b \in Buttons :
        /\ shown[b]
        /\ ~Configured(settings[b])
        /\ settings[b].uuid
        /\ title[b].text = "Configure"
        /\ lastEv = [ev |-> "keyDown", b |-> b]
        /\ flash = "alert"
        /\ fetchInflight[b] = 0
        /\ cmdInflight = {}
        /\ pollingIntervals = {}
        /\ currentValues = EmptyMap

\* The classes that keep a state and poll for it.
Polled(b) == actionKind[b] \in {"switch", "dimmer", "blind"}

\* The step starts exactly one fetch for button b and leaves a poll timer
\* recorded for it.
FetchAndTimer(b) ==
    /\ fetchInflight'[b] = fetchInflight[b] + 1
    /\ b \in pollingIntervals'

\* The step suspends the appear handler of button b at its awaited label
\* update, before its fetch.
AppearSuspended(b) ==
    /\ susp' = Append(susp, [b |-> b, st |-> settings[b]])
    /\ fetchInflight' = fetchInflight
    /\ pollingIntervals' = pollingIntervals
    /\ leakedTimers' = leakedTimers

\* The step creates a poll timer for button b.
TimerCreated(b) ==
    \/ b \in pollingIntervals' \ pollingIntervals
    \/ b \in leakedTimers' \ leakedTimers

\* C23: the appear handler of a switch, dimmer or blind with complete settings
\* starts one fetch and the poll timer, at once or when it resumes from its
\* awaited label update; the step that creates a timer is the one that starts
\* the first fetch, so no tick precedes it; every tick starts exactly one
\* fetch; and a recorded timer is removed by nothing but the hide event.
C23_FetchOnAppearThenEveryTick ==
    [][\A b \in Buttons :
          Polled(b) =>
              /\ (~shown[b] /\ shown'[b] /\ Complete(settings[b])) =>
                    (FetchAndTimer(b) \/ AppearSuspended(b))
              /\ (susp # <<>> /\ susp' = Tail(susp) /\ Head(susp).b = b
                      /\ Complete(Head(susp).st)) => FetchAndTimer(b)
              /\ TimerCreated(b) => fetchInflight'[b] = fetchInflight[b] + 1
              /\ (lastEv'.ev = "tick" /\ lastEv'.b = b) =>
                    /\ b \in pollingIntervals \cup leakedTimers
                    /\ fetchInflight'[b] = fetchInflight[b] + 1
              /\ (b \in pollingIntervals /\ b \notin pollingIntervals') =>
                    (shown[b] /\ ~shown'[b])]_vars

\* A visible button whose first fetch has been answered is fetched again by a
\* tick of its timer.
C23_Witness ==
    \E b \in Buttons :
        /\ Polled(b)
        /\ shown[b]
        /\ lastEv = [ev |-> "tick", b |-> b]
        /\ b \in pollingIntervals
        /\ b \notin leakedTimers
        /\ fetchInflight[b] = 1
        /\ susp = <<>>

\* The per-button maps hold nothing for button b.
NoEntry(b) ==
    /\ ~MapHas(switchStates, b)
    /\ ~MapHas(currentValues, b)
    /\ ~MapHas(dimmerStates, b)
    /\ b \notin pollingIntervals

\* C24: while a button is hidden the per-button maps hold no entry for it, and
\* no step taken while it stays hidden (an answer to a fetch or to a command
\* in particular) changes its label.
C24_HiddenHasNoEntry ==
    [][\A b \in Buttons :
          /\ ~shown'[b] => NoEntry(b)'
          /\ (~shown[b] /\ ~shown'[b]) => title'[b] = title[b]]_vars

\* The step handles, for button b, the answer to a fetch that failed at
\* transport level, was no JSON, or had no entry or no states for the target.
FailedPollOf(b) ==
    /\ lastEv'.ev = "fetchResp"
    /\ lastEv'.b = b
    /\ lastEv'.body.status \in {"error", "badJson", "noControl"}

\* C25: a poll that fails at transport level, returns no valid JSON or finds no
\* entry (or no states) for the target leaves what is remembered, the label,
\* the indicator and the timers as they were and shows nothing on the key; a
\* timer that is still running can tick again as soon as no handler is
\* suspended and the model's bound on fetches in flight allows it.
C25_FailedPollChangesNothing ==
    /\ [][\A b \in Buttons :
            FailedPollOf(b) =>
                /\ fetchInflight'[b] = fetchInflight[b] - 1
                /\ Remembered' = Remembered
                /\ <<title, indicator, feedback, susp, cmdInflight, shown>>' =
                       <<title, indicator, feedback, susp, cmdInflight, shown>>
                /\ flash' = "none"
                /\ uncaught' = uncaught]_vars
    /\ [](\A b \in Buttons :
            ( /\ lastEv.ev = "fetchResp"
              /\ lastEv.b = b
              /\ lastEv.body.status # "states"
              /\ b \in pollingIntervals \cup leakedTimers
              /\ fetchInflight[b] < MaxFetch ) => ENABLED Tick(b))

\* A blind with a stored position and a running timer has had a poll answered
\* with a catalog that lacks its target.
C25_Witness ==
    \E b \in Buttons :
        /\ actionKind[b] = "blind"
        /\ shown[b]
        /\ lastEv.ev = "fetchResp"
        /\ lastEv.b = b
        /\ lastEv.body.status = "noControl"
        /\ b \in pollingIntervals
        /\ MapHas(currentValues, b)
        /\ currentValues[b] > 0
        /\ title[b].text = "%"

\* The step answers a get-controls request from the cache.
CacheAnswer == srvReply'.from = "cache"

\* The step handles a get-controls request with its fields filled in.
GetControlsStep ==
    /\ srvReply'.host # <<>>
    /\ \/ srvReply'.from = "cache"
       \/ Len(srvFetches') = Len(srvFetches) + 1

\* The request the step handles.
Asked == IF CacheAnswer THEN [host |-> srvReply'.host, user |-> srvReply'.user]
         ELSE [host |-> srvFetches'[Len(srvFetches')].host,
               user |-> srvFetches'[Len(srvFetches')].user]

\* A catalog fetched for this host and username was cached less than 60 s ago.
StoredRecently(host, user) ==
    /\ MapHas(stored, <<host, user>>)
    /\ clock - stored[<<host, user>>] < CacheTtlMs

\* C26: get-controls answers from the cache, without a fetch, exactly when a
\* catalog for the same host and username was stored less than 60 seconds
\* earlier; a successful fetch replaces the entry with the fresh catalog and
\* the current time.
C26_CacheExactlyWhenFresh ==
    [][/\ GetControlsStep => (CacheAnswer <=> StoredRecently(Asked.host, Asked.user))
       /\ srvReply'.from = "controller" =>
            /\ srvReply'.structure = catalog
            /\ connections'[Key(srvReply'.host, srvReply'.user)] =
                  [structure |-> catalog, timestamp |-> clock]]_vars

\* The same rule read on the cache key instead of the host and username.
CacheExactlyWhenKeyFresh ==
    [][GetControlsStep =>
          (CacheAnswer <=>
              LET key == Key(Asked.host, Asked.user)
              IN  MapHas(connections, key) /\ clock - connections[key].timestamp < CacheTtlMs)]_vars

\* The request answered by the last step.
Answering == [host |-> srvReply.host, user |-> srvReply.user, pw |-> srvReply.pw]

\* C38: get-controls returns a catalog, from the controller or from the cache,
\* only to a request whose host, username and password the controller
\* accepts, whatever was served before.
C38_CatalogOnlyForAccepted ==
    srvReply.from \in {"cache", "controller"} => Accepted(Answering)

\* A catalog that comes from the controller itself goes to an accepted
\* request only.
FetchedOnlyForAccepted ==
    srvReply.from = "controller" => Accepted(Answering)

\* A request with the right host and username and a wrong password has been
\* answered with the cached catalog.
WrongPasswordServed ==
    /\ srvReply.from = "cache"
    /\ srvReply.host = ControllerHost
    /\ \E acc \in Accounts : acc.user = srvReply.user /\ acc.pw # srvReply.pw

\* The control types the companion server's documentation lists as shown.
SupportedTypes == {"Switch", "Dimmer", "Jalousie", "LightController", "Pushbutton",
                   "InfoOnlyDigital", "InfoOnlyAnalog", "TimedSwitch", "Gate",
                   "UpDownDigital"}

\* C27: the controls returned by get-controls (the list and its groupings by
\* room, category and type) contain no control whose type is not one of the
\* supported types.
C27_OnlySupportedTypes ==
    /\ \A i \in 1..Len(organized.all) : organized.all[i].type \in SupportedTypes
    /\ DOMAIN organized.byType \subseteq SupportedTypes

\* C28: whatever the sequence of getClient calls, calls made while an earlier
\* one for the same host and username is still connecting or after its connect
\* failed included, no two LoxoneClient objects are ever constructed for the
\* same host and username.
C28_OneClientPerKey ==
    \A i, j \in 1..Len(created) : created[i] = created[j] => i = j

\* The authenticate request of connection g has been answered.
AuthDone(g) == \E i \in 1..Len(hsLog[g]) : hsLog[g][i] = "rx_auth"

\* C29: a control command goes out only while the flag is set on the current
\* connection, which is open and whose authenticate step has completed; a
\* sendControl call in any other state fails with 'Not authenticated' (flag
\* clear) or 'WebSocket not connected' (no open socket) and sends nothing; and
\* the flag is clear whenever the current socket, or every socket of the
\* session, is closed.
C29_NeverUsableUnauthenticated ==
    /\ [][/\ ControlAccepted =>
               /\ authenticated
               /\ ws # 0 /\ ws' = ws
               /\ rs[ws] = "OPEN"
               /\ AuthDone(ws)
          /\ ControlSettled("Not authenticated")' # {} =>
               /\ ~authenticated
               /\ timers' = timers /\ lastSend' = lastSend
          /\ ControlSettled("WebSocket not connected")' # {} =>
               /\ authenticated
               /\ ws = 0 \/ rs[ws] # "OPEN"
               /\ timers' = timers /\ lastSend' = lastSend]_vars
    /\ [](/\ (ws # 0 /\ rs[ws] = "CLOSED") => ~authenticated
          /\ (\A g \in 1..Len(rs) : rs[g] = "CLOSED") => ~authenticated
          /\ authenticated => \E g \in 1..Len(rs) :
                                 rs[g] \in {"OPEN", "CLOSING"} /\ AuthDone(g))

\* sendControl has been refused on a reconnected, open socket whose
\* authenticate request is not yet answered.
C29_Witness ==
    /\ lastSettle = <<[owner |-> "control", result |-> "Not authenticated"]>>
    /\ ws # 0
    /\ rs[ws] = "OPEN"
    /\ ~AuthDone(ws)
    /\ ~authenticated

-----------------------------------------------------------------------------
(***************************************************************************)
(* Properties of the frame decoder                                         *)
(***************************************************************************)

\* C5: a buffer with fewer than 24 bytes after its 8-byte header (total length
\* below 32) yields zero value-update events and no error.
C5_ShortBufferNoEvents ==
    (decPc = "done" /\ Len(data) < HeaderLen + RecordLen)
        => (emitted = <<>> /\ decErrors = 0)

\* A decoded buffer that passes the length guard but holds no complete record.
C5_Witness ==
    decPc = "done" /\ Len(data) >= MinFrameLen /\ Len(data) < HeaderLen + RecordLen

\* Position (1-based) in the 36-character identifier of the first hex digit of
\* byte k (0-based) of the 16 identifier bytes.
HexPos(k) ==
    2 * k + 1 + (IF k >= 4 THEN 1 ELSE 0) + (IF k >= 6 THEN 1 ELSE 0)
              + (IF k >= 8 THEN 1 ELSE 0) + (IF k >= 10 THEN 1 ELSE 0)

\* u is the lowercase 8-4-4-4-12 rendering of the 16 bytes of buf from 0-based offset off.
IsCanonicalUuid(u, buf, off) ==
    /\ Len(u) = 36
    /\ \A p \in {9, 14, 19, 24} : u[p] = "-"
    /\ \A k \in 0..15 :
          /\ u[HexPos(k)] = HexDigits[(buf[off + k + 1] \div 16) + 1]
          /\ u[HexPos(k) + 1] = HexDigits[(buf[off + k + 1] % 16) + 1]

\* v holds the binary64 fields of the 8 bytes of buf from 0-based offset off,
\* least significant byte first.
IsLittleEndianDouble(v, buf, off) ==
    /\ v.sign = buf[off + 8] \div 128
    /\ v.exponent = (buf[off + 8] % 128) * 16 + (buf[off + 7] \div 16)
    /\ v.fraction[1] = (buf[off + 7] % 16) * 65536 + buf[off + 6] * 256 + buf[off + 5]
    /\ v.fraction[2] = buf[off + 4] * 256 + buf[off + 3]
    /\ v.fraction[3] = buf[off + 2] * 256 + buf[off + 1]

\* The buffer with its first 8 bytes replaced by the header drawn from seed h.
WithHeader(buf, h) ==
    [i \in 1..Len(buf) |-> IF i <= HeaderLen THEN MkBuffer(HeaderLen, h, 0)[i] ELSE buf[i]]

\* C6: a buffer of an 8-byte header and exactly one 24-byte record yields exactly
\* one event; its identifier is the canonical lowercase 8-4-4-4-12 hex rendering
\* of the 16 record bytes, its value the little-endian double of the next 8
\* bytes, and the event is the same whatever the 8 header bytes are.
C6_OneRecordOneEvent ==
    (decPc = "done" /\ Len(data) = HeaderLen + RecordLen)
        => /\ Len(emitted) = 1
           /\ decErrors = 0
           /\ IsCanonicalUuid(emitted[1].uuid, data, HeaderLen)
           /\ IsLittleEndianDouble(emitted[1].value, data, HeaderLen + UuidLen)
           /\ \A h \in HeaderSeeds : DecodeFrame(WithHeader(data, h)).events = emitted

\* A decoded buffer of exactly header plus one record, whose identifier bytes
\* are not all alike and whose header differs from another header seed.
C6_Witness ==
    /\ decPc = "done" /\ Len(data) = HeaderLen + RecordLen /\ Len(emitted) = 1
    /\ data[HeaderLen + 1] # data[HeaderLen + 2]
    /\ \E h \in HeaderSeeds : WithHeader(data, h) # data

\* The i-th (1-based) 24-byte record after the header, as an event.
RecordEvent(buf, i) ==
    LET off == HeaderLen + (i - 1) * RecordLen
    IN  [uuid  |-> FormatUuid(SubSeq(buf, off + 1, off + UuidLen)),
         value |-> DoubleOf(SubSeq(buf, off + UuidLen + 1, off + RecordLen))]

\* C7: a buffer of the header, N complete records and fewer than 24 trailing
\* bytes yields exactly N events, the i-th from the i-th record, and no error.
C7_NRecordsNEvents ==
    (decPc = "done" /\ Len(data) >= HeaderLen)
        => LET n == (Len(data) - HeaderLen) \div RecordLen
           IN  /\ Len(emitted) = n
               /\ \A i \in 1..n : emitted[i] = RecordEvent(data, i)
               /\ decErrors = 0

\* A decoded buffer with two complete records followed by a partial record.
C7_Witness ==
    /\ decPc = "done"
    /\ Len(emitted) >= 2
    /\ emitted[1] # emitted[2]
    /\ (Len(data) - HeaderLen) % RecordLen > 0

-----------------------------------------------------------------------------
(***************************************************************************)
(* Properties of the message routing                                       *)
(***************************************************************************)

\* The text of the message is a JSON object whose LL member carries a control
\* identifier and a value.
CarriesBoth(buf) ==
    LET message == JsonParse(BufferToString(buf))
    IN  /\ message.ok
        /\ message.val.t = "obj"
        /\ Truthy(OptChain(Prop(message.val, NameLL), NameControl))
        /\ OptChain(Prop(message.val, NameLL), NameValue).t # "undefined"

\* A handled message took exactly one branch, the JSON branch exactly when its
\* text starts with "{"; the JSON branch emits at most one event, and only for
\* a message that carries both fields; the other branch emits what the frame
\* decoder makes of the buffer; a text that does not parse and a buffer under
\* 24 bytes emit nothing, and no exception leaves handleMessage.
RoutedByFirstCharacter ==
    decPc = "done" =>
        /\ path \in {"json", "binary"}
        /\ path = "json" <=> StartsWith(BufferToString(data), LBrace)
        /\ path = "json" =>
               /\ Len(emitted) <= 1
               /\ emitted # <<>> <=> CarriesBoth(data)
               /\ decErrors = 0
        /\ path = "binary" =>
               /\ emitted = DecodeFrame(data).events
               /\ Len(data) < MinFrameLen => emitted = <<>> /\ decErrors = 0
        /\ ~raised

\* A JSON answer with both fields has produced its event.
JsonEventEmitted ==
    /\ decPc = "done"
    /\ frame = "text"
    /\ path = "json"
    /\ Len(emitted) = 1
    /\ emitted[1].uuid = Str(<<117>>)
    /\ emitted[1].value = Num(1)

\* A binary status buffer with at least one whole record, whose header starts
\* with the byte 0x7B, went to JSON.parse and its records were not decoded.
BroadcastDropped ==
    /\ decPc = "done"
    /\ frame = "binary"
    /\ Len(data) >= HeaderLen + RecordLen
    /\ path = "json"
    /\ emitted = <<>>
    /\ DecodeFrame(data).events # <<>>

\* C30: every inbound message is handled by exactly one of the two branches,
\* the JSON branch for a text starting with "{" (an event only with both a
\* control identifier and a value) and the frame decoder for every other
\* message, every binary status broadcast among them; a malformed message
\* emits nothing and raises nothing.
C30_BinaryBroadcastsReachDecoder ==
    /\ RoutedByFirstCharacter
    /\ (decPc = "done" /\ frame = "binary") =>
           /\ path = "binary"
           /\ emitted = DecodeFrame(data).events

-----------------------------------------------------------------------------
(***************************************************************************)
(* Properties of the session: disconnect, handshake failure, timers        *)
(***************************************************************************)

\* C32: after disconnect() the session stays disconnected: as long as it holds
\* no socket (only disconnect() sets this.ws to null, every connect() stores a
\* new socket), no reconnect timer is pending once the close of its sockets
\* has been processed, and no step creates a new socket.
C32_StaysDisconnected ==
    /\ []((Dropped /\ \A g \in 1..Len(rs) : rs[g] = "CLOSED") => ~reconnectTimer)
    /\ [][Dropped => Len(rs') = Len(rs)]_vars

\* The handshake of connection g has failed at one of its three requests.
HandshakeFailed(g) ==
    \E i \in 1..Len(hsLog[g]) : hsLog[g][i] \in { "fail_" \o step : step \in HandshakeSteps }

\* Some connection of the session has completed its handshake.
Ready == \E g \in 1..Len(rs) : \E i \in 1..Len(hsLog[g]) : hsLog[g][i] = "connected"

\* C33: a session whose handshake has failed on an open connection does not
\* stay stuck: eventually a connection completes its handshake after all or a
\* new connect attempt is made, unless the session is told to disconnect or
\* the process ends (stated for every attempt but the last one the model
\* allows).
C33_FailedHandshakeRecovers ==
    \A g \in 1..(MaxConn - 1) :
        []((Len(rs) = g /\ rs[g] = "OPEN" /\ HandshakeFailed(g) /\ ~Dropped /\ Alive)
               => <>(Ready \/ Len(rs) > g \/ Dropped \/ ~Alive))

\* The handshake has failed by timeout, the connection is open, and nothing is
\* pending that would ever act on it: no timer of any kind.
StuckAfterHandshakeFailure ==
    /\ Len(rs) = 1
    /\ rs[1] = "OPEN"
    /\ HandshakeFailed(1)
    /\ ~Ready
    /\ timers = <<>>
    /\ ~reconnectTimer
    /\ ~keepAliveTimer

\* Connection g has completed its handshake.
Completed(g) == \E i \in 1..Len(hsLog[g]) : hsLog[g][i] = "connected"

\* The reconnect timeouts pending.
ReconnectTimers == { i \in 1..Len(timers) : timers[i].kind = "reconnect" }

\* At most one keep-alive interval and one reconnect timeout exist, the stored
\* handles being those of the timers that run.
OneTimerEach ==
    /\ kaLeaked = 0
    /\ Cardinality(ReconnectTimers) <= 1
    /\ reconnectTimer <=> ReconnectTimers # {}

\* C39: at most one keep-alive timer and at most one reconnect timer exist at
\* any time, and a keep-alive timer exists only while the session's connection
\* is open and has completed its handshake.
C39_TimersFollowConnection ==
    /\ OneTimerEach
    /\ keepAliveTimer => (ws # 0 /\ rs[ws] = "OPEN" /\ Completed(ws))

\* The same with the connection taken as lasting until its close event has
\* been handled, whether or not the session still holds it.
TimersUntilCloseHandled ==
    /\ OneTimerEach
    /\ keepAliveTimer =>
           \E g \in 1..Len(rs) : rs[g] \in {"OPEN", "CLOSING"} /\ Completed(g)

\* The keep-alive interval was started after disconnect(): the session holds no
\* socket and the interval is running.
KeepAliveAfterDisconnect == keepAliveTimer /\ Dropped

-----------------------------------------------------------------------------
(***************************************************************************)
(* Properties of the buttons: polls, timers and remembered state           *)
(***************************************************************************)

\* The state named first when the answer carries it, else the one named
\* second when the answer carries it, else 0 (in tenths).
Preferring(first, second) ==
    IF first # {} THEN CHOOSE v \in first : TRUE
    ELSE IF second # {} THEN CHOOSE v \in second : TRUE
    ELSE 0

\* The last step answered a poll of button b with the states of its control.
PollAnswered(b) ==
    /\ lastEv.ev = "fetchResp"
    /\ lastEv.b = b
    /\ lastEv.body.status = "states"

\* C31: after a poll answer with states, a dimmer stores the rounded value
\* state, else the rounded position state, else 0, with the flag (level > 0);
\* a blind stores the rounded position state, else the rounded value state,
\* else 0; the fallback is taken only when the preferred state is absent, so
\* a present 0 is stored as 0.
C31_PollStoresPreferredState ==
    \A b \in Buttons :
        PollAnswered(b) =>
            /\ actionKind[b] = "dimmer" =>
                   /\ MapHas(currentValues, b)
                   /\ currentValues[b] = Round(Preferring(lastEv.body.value, lastEv.body.position))
                   /\ MapHas(dimmerStates, b)
                   /\ dimmerStates[b] = (currentValues[b] > 0)
            /\ actionKind[b] = "blind" =>
                   /\ MapHas(currentValues, b)
                   /\ currentValues[b] = Round(Preferring(lastEv.body.position, lastEv.body.value))

\* The same with JavaScript's || for the blind: a position of 0 counts as
\* absent and the value state is taken in its place.
PollStoresFirstUsableState ==
    \A b \in Buttons :
        PollAnswered(b) =>
            /\ actionKind[b] = "dimmer" =>
                   /\ MapHas(currentValues, b)
                   /\ currentValues[b] = Round(Preferring(lastEv.body.value, lastEv.body.position))
                   /\ MapHas(dimmerStates, b)
                   /\ dimmerStates[b] = (currentValues[b] > 0)
            /\ actionKind[b] = "blind" =>
                   /\ MapHas(currentValues, b)
                   /\ currentValues[b] =
                          Round(Preferring(lastEv.body.position \ {0}, lastEv.body.value \ {0}))

\* The step is the answer, with the states of the control, to a fetch of
\* button b that was started before a command of b was sent which has been
\* answered with code 200 since.
StalePollOf(b) ==
    /\ lastEv'.ev = "fetchResp"
    /\ lastEv'.b = b
    /\ lastEv'.stale
    /\ lastEv'.body.status = "states"

\* C34: a successful command is not undone by a stale poll: the answer to a
\* fetch that was started before a command was sent, arriving after that
\* command was answered with code 200, leaves the remembered state of the
\* switch or dimmer as it is.
C34_StalePollKeepsState ==
    [][\A b \in Buttons :
          StalePollOf(b) =>
              <<switchStates, currentValues, dimmerStates>>' =
                  <<switchStates, currentValues, dimmerStates>>]_vars

\* An onWillAppear call of button b is suspended at its await.
Appearing(b) == \E i \in 1..Len(susp) : susp[i].b = b

\* C35: every visible button of a polling class whose current settings hold
\* address, username, secret and target identifier has a poll timer recorded,
\* however the settings became complete (a button whose appear handler has
\* not finished yet is left out).
C35_CompleteButtonPolls ==
    \A b \in Buttons :
        (Polled(b) /\ shown[b] /\ Complete(settings[b]) /\ ~Appearing(b))
            => b \in pollingIntervals

\* The same for the settings the button appeared with: a timer is recorded when
\* these were complete and the button has not been hidden since.
AppearedCompletePolls ==
    [][\A b \in Buttons :
          (Polled(b) /\ ~shown[b] /\ shown'[b] /\ Complete(settings[b]) /\ ~Appearing(b)')
              => b \in pollingIntervals']_vars

\* C36: for every button at most one poll timer is running, and a running
\* timer is the one recorded in pollingIntervals: no button has a timer whose
\* handle was overwritten.
C36_OneRecordedTimer == leakedTimers = {}

\* C37: for every visible dimmer the remembered flag is on exactly when the
\* stored level is greater than 0 (both absent counts as agreeing).
C37_FlagAgreesWithLevel ==
    \A b \in Buttons :
        (actionKind[b] = "dimmer" /\ shown[b]) =>
            /\ MapHas(dimmerStates, b) <=> MapHas(currentValues, b)
            /\ MapHas(dimmerStates, b) => (dimmerStates[b] <=> currentValues[b] > 0)

\* A dial request has failed and left a dimmer with a level above 0 and the
\* flag off, with nothing in flight that could still set it.
FlagOffAfterFailedDial ==
    \E b \in Buttons :
        /\ actionKind[b] = "dimmer"
        /\ shown[b]
        /\ lastEv.ev = "cmdResp"
        /\ lastEv.b = b
        /\ lastEv.outcome # "200"
        /\ cmdInflight = {}
        /\ fetchInflight[b] = 0
        /\ MapHas(currentValues, b) /\ currentValues[b] > 0
        /\ MapHas(dimmerStates, b) /\ ~dimmerStates[b]

====
